---- MODULE Spec2Model ----
(***************************************************************************)
(* OnePage Monitoring v2.1 (scripts/main.js): the status fetching engine,  *)
(* the format normalizers, the widget refresh orchestrator, the history    *)
(* and notification emitters and the auto-refresh timer.                   *)
(*                                                                         *)
(* JavaScript strings that the code searches (vendor status strings) are   *)
(* sequences of one-character strings, so that toLowerCase and includes    *)
(* are computed character by character.                                    *)
(***************************************************************************)
EXTENDS Integers, Sequences, FiniteSets, TLC

(***************************************************************************)
(* Bounds of the model.                                                    *)
(***************************************************************************)
MaxChunks == 2
MaxCycles == 4
MaxAlls == 1
MaxTimerId == 3
MaxToggles == 1
MaxClock == 2

(***************************************************************************)
(* Strings.                                                                *)
(***************************************************************************)
kwOperational == <<"o","p","e","r","a","t","i","o","n","a","l">>
kwOk == <<"o","k">>
kwPartial == <<"p","a","r","t","i","a","l">>
kwMinor == <<"m","i","n","o","r">>
kwDegrad == <<"d","e","g","r","a","d">>
kwMajor == <<"m","a","j","o","r">>
kwDown == <<"d","o","w","n">>
kwCritical == <<"c","r","i","t","i","c","a","l">>

\* String.prototype.toLowerCase, one character
LowerChar(c) ==
  CASE c = "A" -> "a" [] c = "B" -> "b" [] c = "C" -> "c" [] c = "D" -> "d"
    [] c = "E" -> "e" [] c = "F" -> "f" [] c = "G" -> "g" [] c = "H" -> "h"
    [] c = "I" -> "i" [] c = "J" -> "j" [] c = "K" -> "k" [] c = "L" -> "l"
    [] c = "M" -> "m" [] c = "N" -> "n" [] c = "O" -> "o" [] c = "P" -> "p"
    [] c = "Q" -> "q" [] c = "R" -> "r" [] c = "S" -> "s" [] c = "T" -> "t"
    [] c = "U" -> "u" [] c = "V" -> "v" [] c = "W" -> "w" [] c = "X" -> "x"
    [] c = "Y" -> "y" [] c = "Z" -> "z"
    [] OTHER -> c

\* String.prototype.toLowerCase
toLowerCase(s) == [i \in 1..Len(s) |-> LowerChar(s[i])]

\* String.prototype.includes
includes(s, t) == \E i \in 0..(Len(s) - Len(t)) : SubSeq(s, i + 1, i + Len(t)) = t

(***************************************************************************)
(* mapStatus: main.js lines 683-689.                                       *)
(***************************************************************************)
mapStatus_swapped(s0) ==
  LET s == toLowerCase(s0) IN
  IF includes(s, kwOperational) \/ includes(s, kwOk) THEN "ok"
  ELSE IF includes(s, kwMajor) \/ includes(s, kwDown) \/ includes(s, kwCritical) THEN "major"
  ELSE IF includes(s, kwPartial) \/ includes(s, kwMinor) \/ includes(s, kwDegrad) THEN "warning"
  ELSE "unknown"

mapStatus_noLower(s) ==
  IF includes(s, kwOperational) \/ includes(s, kwOk) THEN "ok"
  ELSE IF includes(s, kwPartial) \/ includes(s, kwMinor) \/ includes(s, kwDegrad) THEN "warning"
  ELSE IF includes(s, kwMajor) \/ includes(s, kwDown) \/ includes(s, kwCritical) THEN "major"
  ELSE "unknown"

mapStatus(s0) ==
  LET s == toLowerCase(s0) IN
  IF includes(s, kwOperational) \/ includes(s, kwOk) THEN "ok"
  ELSE IF includes(s, kwPartial) \/ includes(s, kwMinor) \/ includes(s, kwDegrad) THEN "warning"
  ELSE IF includes(s, kwMajor) \/ includes(s, kwDown) \/ includes(s, kwCritical) THEN "major"
  ELSE "unknown"

(***************************************************************************)
(* Text constants of main.js.                                              *)
(***************************************************************************)
msgUnreachable == <<"U","n","r","e","a","c","h","a","b","l","e"," ","/"," ","o","f","f","l","i","n","e">>
msgUnknownJson == <<"U","n","k","n","o","w","n"," ","J","S","O","N"," ","f","o","r","m","a","t">>
msgStatusReceived == <<"S","t","a","t","u","s"," ","r","e","c","e","i","v","e","d">>
msgRssIncident == <<"R","e","c","e","n","t"," ","R","S","S"," ","i","n","c","i","d","e","n","t">>
msgRssNone == <<"N","o"," ","r","e","c","e","n","t"," ","i","n","c","i","d","e","n","t","s">>
msgHtmlDegraded == <<"P","o","s","s","i","b","l","e"," ","d","e","g","r","a","d","a","t","i","o","n">>
msgHtmlOk == <<"L","o","o","k","s"," ","o","p","e","r","a","t","i","o","n","a","l">>
msgChecking == <<"C","h","e","c","k","i","n","g",".",".",".">>
msgUnable == <<"U","n","a","b","l","e"," ","t","o"," ","l","o","a","d">>
msgLoading == <<"L","o","a","d","i","n","g",".",".",".">>
kwItem == <<"<","i","t","e","m",">">>
kwIncident == <<"i","n","c","i","d","e","n","t">>
kwApplicationJson == <<"a","p","p","l","i","c","a","t","i","o","n","/","j","s","o","n">>
kwXml == <<"x","m","l">>
kwRss == <<"r","s","s">>

(***************************************************************************)
(* Responses the model draws from: content types and bodies.               *)
(***************************************************************************)
txtAllSystemsGo == <<"A","l","l"," ","s","y","s","t","e","m","s"," ","g","o">>
txtCriticalOutage == <<"C","r","i","t","i","c","a","l"," ","o","u","t","a","g","e">>
ctJson == <<"a","p","p","l","i","c","a","t","i","o","n","/","j","s","o","n">>
ctRss == <<"a","p","p","l","i","c","a","t","i","o","n","/","r","s","s","+","x","m","l">>
ctHtml == <<"t","e","x","t","/","h","t","m","l">>
ctNone == <<>>
ctJsonCharset == <<"a","p","p","l","i","c","a","t","i","o","n","/","j","s","o","n",";"," ","c","h","a","r","s","e","t","=","u","t","f","-","8">>
ctXml == <<"t","e","x","t","/","x","m","l">>
ctAtom == <<"a","p","p","l","i","c","a","t","i","o","n","/","a","t","o","m","+","x","m","l">>
ctPlain == <<"t","e","x","t","/","p","l","a","i","n">>
ctJsonXml == <<"a","p","p","l","i","c","a","t","i","o","n","/","j","s","o","n",";","v","=","x","m","l">>
ctHtmlCharset == <<"t","e","x","t","/","h","t","m","l",";"," ","c","h","a","r","s","e","t","=","u","t","f","-","8">>
ctProblemJson == <<"a","p","p","l","i","c","a","t","i","o","n","/","p","r","o","b","l","e","m","+","j","s","o","n">>
bodyRssItem == <<"<","r","s","s",">","<","i","t","e","m",">","I","n","c","i","d","e","n","t","<","/","i","t","e","m",">","<","/","r","s","s",">">>
bodyHtmlOperational == <<"<","h","t","m","l",">","<","t","i","t","l","e",">","O","p","e","r","a","t","i","o","n","a","l","<","/","t","i","t","l","e",">","<","/","h","t","m","l",">">>
bodyRssEmpty == <<"<","r","s","s",">","<","/","r","s","s",">">>
bodyHtmlIncident == <<"<","h","1",">","I","N","C","I","D","E","N","T","<","/","h","1",">">>
bodyHtmlError == <<"I","n","t","e","r","n","a","l"," ","S","e","r","v","e","r"," ","E","r","r","o","r">>

\* a property of a parsed JSON value: undefined, a string, a number, null or
\* an object
fUndefined == [t |-> "undefined", v |-> <<>>]
fString(s) == [t |-> "string", v |-> s]
fNumber(s) == [t |-> "number", v |-> s]
fNull == [t |-> "null", v |-> <<>>]
fObject == [t |-> "object", v |-> <<>>]
\* ToBoolean of a property value
Truthy(f) ==
  \/ f.t = "string" /\ f.v # <<>>
  \/ f.t = "number" /\ f.v # <<"0">>
  \/ f.t = "object"

jsonNull == [type |-> "null", status |-> fUndefined, status_description |-> fUndefined]
jsonObject(st, d) == [type |-> "object", status |-> st, status_description |-> d]
jsonOperational == jsonObject(fString(kwOperational), fString(txtAllSystemsGo))
jsonMajor == jsonObject(fString(kwMajor), fString(txtCriticalOutage))
jsonPartial == jsonObject(fString(kwPartial), fUndefined)
jsonEmpty == jsonObject(fUndefined, fUndefined)
jsonNumericStatus == jsonObject(fNumber(<<"5">>), fUndefined)
jsonEmptyStatus == jsonObject(fString(<<>>), fString(txtAllSystemsGo))
jsonObjectStatus == jsonObject(fObject, fUndefined)
\* a JSON body that is a number, a string or an array: reading a property of
\* it gives undefined
jsonNumberBody == [type |-> "number", status |-> fUndefined, status_description |-> fUndefined]
jsonStringBody == [type |-> "string", status |-> fUndefined, status_description |-> fUndefined]
jsonArrayBody == [type |-> "array", status |-> fUndefined, status_description |-> fUndefined]

JsonBodies == {jsonMajor, jsonPartial}
TextBodies == {bodyHtmlOperational}

(***************************************************************************)
(* Format normalizers: main.js lines 659-681.  A call either returns a     *)
(* StatusResult or throws.                                                 *)
(***************************************************************************)
Levels == {"ok", "warning", "major", "unknown"}
Return(l, m) == [thrown |-> FALSE, level |-> l, message |-> m]
Throw == [thrown |-> TRUE, level |-> "", message |-> <<>>]
NoResult == [thrown |-> FALSE, level |-> "", message |-> <<>>]

normalizeJsonStatus_descAsIs(json) ==
  IF json.type = "null" THEN Throw
  ELSE IF Truthy(json.status)
       THEN IF json.status.t # "string" THEN Throw
            ELSE Return(mapStatus(json.status.v), json.status_description.v)
       ELSE Return("unknown", msgUnknownJson)

normalizeJsonStatus(json) ==
  IF json.type = "null" THEN Throw
  ELSE IF Truthy(json.status)
       THEN IF json.status.t # "string" THEN Throw
            ELSE Return(mapStatus(json.status.v),
                        IF Truthy(json.status_description)
                          THEN json.status_description.v
                          ELSE msgStatusReceived)
       ELSE Return("unknown", msgUnknownJson)

normalizeRssStatus(xmlText) ==
  IF includes(xmlText, kwItem) THEN Return("warning", msgRssIncident)
  ELSE Return("ok", msgRssNone)

normalizeHtmlStatus_caseSensitive(html) ==
  IF includes(html, kwDegrad) \/ includes(html, kwIncident) \/ includes(html, kwPartial)
    THEN Return("warning", msgHtmlDegraded)
  ELSE Return("ok", msgHtmlOk)

normalizeHtmlStatus(html) ==
  LET h == toLowerCase(html) IN
  IF includes(h, kwDegrad) \/ includes(h, kwIncident) \/ includes(h, kwPartial)
    THEN Return("warning", msgHtmlDegraded)
  ELSE Return("ok", msgHtmlOk)

mapStatusToColor(level) ==
  IF level \in {"ok", "operational"} THEN "ok"
  ELSE IF level \in {"warning", "minor", "degraded"} THEN "warn"
  ELSE IF level \in {"major", "down", "critical"} THEN "down"
  ELSE "unknown"

(***************************************************************************)
(* fetchStatus: main.js lines 633-657.                                     *)
(***************************************************************************)
\* lines 641-652: the parser chosen for a content-type header
ParserFor_feedFirst(ct) ==
  IF includes(ct, kwXml) \/ includes(ct, kwRss) THEN "rss"
  ELSE IF includes(ct, kwApplicationJson) THEN "json"
  ELSE "html"

ParserFor(ct) ==
  IF includes(ct, kwApplicationJson) THEN "json"
  ELSE IF includes(ct, kwXml) \/ includes(ct, kwRss) THEN "rss"
  ELSE "html"

\* lines 643-653: the normalizer applied to the body that was read
Normalize(parser, body) ==
  IF parser = "json" THEN normalizeJsonStatus(body)
  ELSE IF parser = "rss" THEN normalizeRssStatus(body)
  ELSE normalizeHtmlStatus(body)

\* a fetchStatus call: where it is suspended, whether its timeout is armed,
\* the response it got, how it left the try block and what it resolved to
NoCall == [stage |-> "idle", timer |-> FALSE, http |-> "none", ct |-> <<>>,
           parser |-> "none", exit |-> "none", result |-> NoResult]

\* lines 634-638: the timeout is armed and the request issued
NewCall == [NoCall EXCEPT !.stage = "fetching", !.timer = TRUE]

\* lines 638-652: fetch() resolved; clearTimeout, then the body is read
onResponse_keepTimer(k, http, ct) ==
  [k EXCEPT !.stage = "reading", !.http = http, !.ct = ct, !.parser = ParserFor(ct)]

onResponse(k, http, ct) ==
  [k EXCEPT !.stage = "reading", !.timer = FALSE, !.http = http, !.ct = ct,
            !.parser = ParserFor(ct)]

\* lines 637, 654-656: the try/catch around the whole request
fetchStatusCatch_rethrow(r) == r

fetchStatusCatch(r) ==
  IF r.thrown THEN Return("unknown", msgUnreachable) ELSE r

\* the call leaves the try block: by a return (lines 644-653) or through the
\* catch (line 655)
onSettle(k, exit, out) ==
  [k EXCEPT !.stage = "settled", !.timer = FALSE, !.exit = exit,
            !.result = fetchStatusCatch(out)]

(***************************************************************************)
(* State.                                                                  *)
(***************************************************************************)
VARIABLES
  phase,             \* "boot" before the DOMContentLoaded handler has run, then "run"
  statusConfigs,     \* OPM.statusConfigs: sequence of [id, enabled]
  widgetKeys,        \* Object.keys(OPM.widgets), in insertion order
  dom,               \* per source: the dot-<id> / desc-<id> elements of the grid
  dbHistory,         \* OPM.db.history
  dbNotifications,   \* OPM.db.notifications
  stored,            \* localStorage "opm-db"
  storedInterval,    \* refreshInterval of localStorage "opm-settings"
  storageWorks,      \* whether localStorage.setItem succeeds in this session
  cycles,            \* refreshWidget invocations suspended in fetchStatus, oldest first
  started,           \* number of refreshWidget invocations made so far
  returnedEarly,     \* how many of them returned at line 596 (no such widget)
  call,              \* a fetchStatus call made on its own
  alls,              \* refreshAllWidgets invocations, in the order they were made
  refreshInterval,   \* OPM.settings.refreshInterval
  autoRefreshTimer,  \* OPM.autoRefreshTimer (0 is null)
  activeTimers,      \* the interval timers the browser is running
  nextTimerId,       \* the handle the next setInterval returns
  toggles,           \* number of admin toggles made
  now,               \* what Date.now() returns: the reading of the wall clock
  clockSteppedBack,  \* whether the wall clock has been set back in this session
  arg,               \* argument of the pure function under evaluation
  ret                \* its result

vars == <<phase, statusConfigs, widgetKeys, dom, dbHistory, dbNotifications,
          stored, storedInterval, storageWorks, cycles, started, returnedEarly, call,
          alls, refreshInterval,
          autoRefreshTimer, activeTimers, nextTimerId, toggles, arg, ret,
          now, clockSteppedBack>>

Sources == {"s1", "s2"}

\* Number(e.target.value): a number or NaN
Num(n) == [nan |-> FALSE, n |-> n]
NaN == [nan |-> TRUE, n |-> 0]
Absent == [nan |-> TRUE, n |-> -1]
IntervalChoices == {Num(30), Num(0), NaN}
\* x > 0 on JavaScript numbers
GreaterThanZero(x) == ~x.nan /\ x.n > 0

cfg(id, en) == [id |-> id, enabled |-> en]
ConfigChoices ==
  { <<>>,
    <<cfg("s1", "true"), cfg("s2", "true")>>,
    <<cfg("s1", "true"), cfg("s2", "false")>> }

NoElement == [present |-> FALSE, dot |-> "", desc |-> <<>>]
NoDocument == [present |-> FALSE, history |-> <<>>, notifications |-> <<>>]

SeqToSet(q) == {q[i] : i \in 1..Len(q)}

(***************************************************************************)
(* Synchronous helpers.  They transform a record S of the fields a refresh *)
(* touches.                                                                *)
(***************************************************************************)
Here == [dom |-> dom, hist |-> dbHistory, notifs |-> dbNotifications,
         stored |-> stored, cycles |-> cycles, alls |-> alls, keys |-> widgetKeys,
         started |-> started, returnedEarly |-> returnedEarly, now |-> now]

Commit(S) ==
  /\ dom' = S.dom
  /\ dbHistory' = S.hist
  /\ dbNotifications' = S.notifs
  /\ stored' = S.stored
  /\ cycles' = S.cycles
  /\ alls' = S.alls
  /\ widgetKeys' = S.keys
  /\ started' = S.started
  /\ returnedEarly' = S.returnedEarly

\* setStatus: lines 614-620
setStatus_dotOnly(S, id, level, message) ==
  IF S.dom[id].present
    THEN [S EXCEPT !.dom[id].dot = mapStatusToColor(level)]
    ELSE S

setStatus(S, id, level, message) ==
  IF S.dom[id].present
    THEN [S EXCEPT !.dom[id] = [present |-> TRUE, dot |-> mapStatusToColor(level),
                                desc |-> message]]
    ELSE S

\* saveDB: lines 187-193; setItem may throw, the catch swallows it
saveDB_staleHistory(S) ==
  IF storageWorks THEN [S EXCEPT !.stored = [present |-> TRUE,
                                   history |-> IF S.stored.present THEN S.stored.history ELSE <<>>,
                                   notifications |-> S.notifs]]
  ELSE S

saveDB(S) ==
  IF storageWorks THEN [S EXCEPT !.stored = [present |-> TRUE, history |-> S.hist,
                                   notifications |-> S.notifs]]
  ELSE S

\* updateHistory: lines 740-755
updateHistory_noPush(S, id, level, message) == saveDB(S)

updateHistory_prepend(S, id, level, message) ==
  saveDB([S EXCEPT !.hist = <<[widgetId |-> id, name |-> id, level |-> level,
                               message |-> message, ts |-> S.now]>> \o @])

updateHistory(S, id, level, message) ==
  saveDB([S EXCEPT !.hist = Append(@, [widgetId |-> id, name |-> id, level |-> level,
                                       message |-> message, ts |-> S.now])])

\* pushNotification: lines 810-815 (the entry and its save)
pushNotification(S, name, message) ==
  saveDB([S EXCEPT !.notifs = Append(@, [title |-> name, message |-> message,
                                         ts |-> S.now, unread |-> TRUE])])

\* checkNotificationTrigger: lines 804-808
Triggers_onWarning(level) == level \in {"major", "down", "warning"}

Triggers(level) == level = "major" \/ level = "down"

\* refreshWidget, lines 594-602: up to the await of fetchStatus, which has
\* armed its timeout and issued the request (lines 634-638)
refreshWidgetEnter_noChecking(S, id, owner) ==
  IF id \notin SeqToSet(S.keys)
    THEN [S EXCEPT !.started = @ + 1, !.returnedEarly = @ + 1]
    ELSE [S EXCEPT !.started = @ + 1,
                   !.cycles = Append(@, [id |-> id, owner |-> owner, call |-> NewCall])]

refreshWidgetEnter(S, id, owner) ==
  IF id \notin SeqToSet(S.keys)
    THEN [S EXCEPT !.started = @ + 1, !.returnedEarly = @ + 1]
    ELSE [setStatus(S, id, "unknown", msgChecking)
            EXCEPT !.started = @ + 1,
                   !.cycles = Append(@, [id |-> id, owner |-> owner, call |-> NewCall])]

RemoveAt(q, c) == [i \in 1..(Len(q) - 1) |-> IF i < c THEN q[i] ELSE q[i + 1]]

\* refreshWidget, lines 603-611: after fetchStatus has settled with r.
\* alertThrows: the popup or the sound raises.
refreshWidgetSettle_saveThrows(S, c, r, alertThrows) ==
  LET id == S.cycles[c].id
      S0 == [S EXCEPT !.cycles = RemoveAt(@, c)]
  IN
  IF r.thrown THEN setStatus(S0, id, "unknown", msgUnable)
  ELSE
    LET S1 == setStatus(S0, id, r.level, r.message)
        S2 == saveDB(S1)
        S3 == updateHistory(S2, id, r.level, r.message)
    IN
    IF ~storageWorks THEN setStatus(S1, id, "unknown", msgUnable)
    ELSE IF Triggers(r.level)
      THEN LET S4 == pushNotification(S3, id, r.message)
           IN IF alertThrows THEN setStatus(S4, id, "unknown", msgUnable) ELSE S4
      ELSE S3

refreshWidgetSettle_alertFirst(S, c, r, alertThrows) ==
  LET id == S.cycles[c].id
      S0 == [S EXCEPT !.cycles = RemoveAt(@, c)]
  IN
  IF r.thrown THEN setStatus(S0, id, "unknown", msgUnable)
  ELSE
    LET S1 == setStatus(S0, id, r.level, r.message)
        S2 == saveDB(S1)
        S3 == updateHistory(S2, id, r.level, r.message)
    IN
    IF Triggers(r.level)
      THEN IF alertThrows THEN setStatus(S3, id, "unknown", msgUnable)
           ELSE pushNotification(S3, id, r.message)
      ELSE S3

refreshWidgetSettle_fenced(S, c, r, alertThrows) ==
  LET id == S.cycles[c].id
      S0 == [S EXCEPT !.cycles = RemoveAt(@, c)]
  IN
  IF \E d \in (c + 1)..Len(S.cycles) : S.cycles[d].id = id THEN S0
  ELSE
    LET S1 == setStatus(S0, id, r.level, r.message)
        S2 == saveDB(S1)
        S3 == updateHistory(S2, id, r.level, r.message)
    IN
    IF Triggers(r.level)
      THEN LET S4 == pushNotification(S3, id, r.message)
           IN IF alertThrows THEN setStatus(S4, id, "unknown", msgUnable) ELSE S4
      ELSE S3

refreshWidgetSettle(S, c, r, alertThrows) ==
  LET id == S.cycles[c].id
      S0 == [S EXCEPT !.cycles = RemoveAt(@, c)]
  IN
  IF r.thrown THEN setStatus(S0, id, "unknown", msgUnable)
  ELSE
    LET S1 == setStatus(S0, id, r.level, r.message)
        S2 == saveDB(S1)                                \* logEvent
        S3 == updateHistory(S2, id, r.level, r.message)
    IN
    IF Triggers(r.level)
      THEN LET S4 == pushNotification(S3, id, r.message)
           IN IF alertThrows THEN setStatus(S4, id, "unknown", msgUnable) ELSE S4
      ELSE S3

\* refreshAllWidgets, lines 587-592: the loop from its k-th key on
RECURSIVE refreshAllStep_noAwait(_, _, _)
refreshAllStep_noAwait(S, a, k) ==
  IF k <= Len(S.alls[a].keys)
    THEN refreshAllStep_noAwait(
           refreshWidgetEnter([S EXCEPT !.alls[a].idx = k], S.alls[a].keys[k], a), a, k + 1)
    ELSE [S EXCEPT !.alls[a].idx = k, !.alls[a].counted = @ + 1]

refreshAllStep(S, a, k) ==
  IF k <= Len(S.alls[a].keys)
    THEN refreshWidgetEnter([S EXCEPT !.alls[a].idx = k], S.alls[a].keys[k], a)
    ELSE [S EXCEPT !.alls[a].idx = k, !.alls[a].counted = @ + 1]

\* the continuation of the caller a that awaited a refreshWidget (0: nobody)
ResumeCaller(S, a) ==
  IF a = 0 THEN S ELSE refreshAllStep(S, a, S.alls[a].idx + 1)

\* renderAllWidgets, lines 547-560, from the i-th config on (the grid has
\* been emptied before)
RECURSIVE RenderFrom(_, _, _)
RenderFrom(S, cfgs, i) ==
  IF i > Len(cfgs) THEN S
  ELSE IF cfgs[i].enabled = "false" THEN RenderFrom(S, cfgs, i + 1)
  ELSE
    LET id == cfgs[i].id
        S1 == [S EXCEPT !.dom[id] = [present |-> TRUE, dot |-> "unknown", desc |-> msgLoading],
                        !.keys = IF id \in SeqToSet(@) THEN @ ELSE Append(@, id)]
    IN RenderFrom(refreshWidgetEnter(S1, id, 0), cfgs, i + 1)

renderAllWidgets(S, cfgs) ==
  RenderFrom([S EXCEPT !.dom = [x \in Sources |-> NoElement]], cfgs, 1)

\* cycle slots still free, the keys of running refreshAllWidgets loops reserved
Reserved == LET R[i \in 0..Len(alls)] ==
                  IF i = 0 THEN 0
                  ELSE R[i - 1] + (IF alls[i].idx <= Len(alls[i].keys)
                                     THEN Len(alls[i].keys) - alls[i].idx ELSE 0)
            IN R[Len(alls)]
FreeSlots == MaxCycles - started - Reserved
EnabledCount(cfgs) == Cardinality({i \in 1..Len(cfgs) : cfgs[i].enabled # "false"})

(***************************************************************************)
(* Auto-refresh engine: lines 725-734.                                     *)
(***************************************************************************)
\* startAutoRefresh
startAutoRefresh(T, interval) ==
  IF GreaterThanZero(interval)
    THEN [timer |-> T.next,
          active |-> T.active \cup {[id |-> T.next, period |-> interval.n * 1000]},
          next |-> T.next + 1]
    ELSE T

\* restartAutoRefresh
restartAutoRefresh_noClear(T, interval) == startAutoRefresh(T, interval)

restartAutoRefresh(T, interval) ==
  startAutoRefresh(
    IF T.timer # 0
      THEN [T EXCEPT !.active = {t \in T.active : t.id # T.timer}]
      ELSE T,
    interval)

Timers == [timer |-> autoRefreshTimer, active |-> activeTimers, next |-> nextTimerId]
CommitTimers(T) ==
  /\ autoRefreshTimer' = T.timer
  /\ activeTimers' = T.active
  /\ nextTimerId' = T.next

(***************************************************************************)
(* Initial state: the script has been evaluated (lines 26-45), the         *)
(* DOMContentLoaded handler has not run yet.                               *)
(***************************************************************************)
\* everything but the configuration and the history
IdleInit ==
  /\ now = 0
  /\ clockSteppedBack = FALSE
  /\ widgetKeys = <<>>
  /\ dom = [x \in Sources |-> NoElement]
  /\ dbNotifications = <<>>
  /\ stored = NoDocument
  /\ cycles = <<>>
  /\ started = 0
  /\ returnedEarly = 0
  /\ call = NoCall
  /\ alls = <<>>
  /\ refreshInterval = Num(30)
  /\ autoRefreshTimer = 0
  /\ activeTimers = {}
  /\ nextTimerId = 1
  /\ toggles = 0

SysInit ==
  /\ statusConfigs = <<>>
  /\ dbHistory = <<>>
  /\ IdleInit

\* a first visit: nothing stored yet, storage available
Init ==
  /\ phase = "boot"
  /\ storageWorks = TRUE
  /\ storedInterval = Absent
  /\ SysInit
  /\ arg = <<>>
  /\ ret = "none"

(***************************************************************************)
(* Handlers.                                                               *)
(***************************************************************************)
\* DOMContentLoaded, lines 76-113: loadDB, loadConfigs, loadLocalSettings,
\* renderAllWidgets, startAutoRefresh
Startup ==
  /\ phase = "boot"
  /\ \E cfgs \in ConfigChoices :
       LET iv == IF storedInterval = Absent THEN refreshInterval ELSE storedInterval IN
       /\ EnabledCount(cfgs) <= FreeSlots
       /\ phase' = "run"
       /\ statusConfigs' = cfgs
       /\ refreshInterval' = iv
       /\ Commit(renderAllWidgets(saveDB(Here), cfgs))
       /\ CommitTimers(startAutoRefresh(Timers, iv))
  /\ UNCHANGED <<storedInterval, storageWorks, call, toggles, arg, ret,
                 now, clockSteppedBack>>

\* a call of refreshWidget(id): the widget's Refresh button (line 578) or
\* any other caller of the function
RefreshWidgetCall(id) ==
  /\ phase = "run"
  /\ FreeSlots >= 1
  /\ Commit(refreshWidgetEnter(Here, id, 0))
  /\ UNCHANGED <<phase, statusConfigs, storedInterval, storageWorks, call, refreshInterval, autoRefreshTimer,
                 activeTimers, nextTimerId, toggles, arg, ret,
                 now, clockSteppedBack>>

\* refreshAllWidgets, lines 587-592, up to its first await
refreshAllWidgets ==
  /\ Len(alls) < MaxAlls
  /\ FreeSlots >= Len(widgetKeys)
  /\ LET S1 == [Here EXCEPT !.alls = Append(@, [keys |-> widgetKeys, idx |-> 0,
                                                counted |-> 0])]
     IN Commit(refreshAllStep(S1, Len(alls) + 1, 1))
  /\ UNCHANGED <<phase, statusConfigs, storedInterval, storageWorks, call, refreshInterval, autoRefreshTimer,
                 activeTimers, nextTimerId, toggles, arg, ret,
                 now, clockSteppedBack>>

\* the "refresh all" button, line 271
RefreshAllClick ==
  /\ phase = "run"
  /\ refreshAllWidgets

\* an interval timer fires, line 727
TimerTick ==
  /\ phase = "run"
  /\ activeTimers # {}
  /\ refreshAllWidgets

\* the admin table's Toggle button, lines 896-901
Toggle(i) ==
  /\ phase = "run"
  /\ toggles < MaxToggles
  /\ i \in 1..Len(statusConfigs)
  /\ LET en == IF statusConfigs[i].enabled = "true" THEN "false" ELSE "true"
         cfgs == [statusConfigs EXCEPT ![i].enabled = en]
     IN /\ EnabledCount(cfgs) <= FreeSlots
        /\ statusConfigs' = cfgs
        /\ Commit(renderAllWidgets(saveDB(Here), cfgs))
  /\ toggles' = toggles + 1
  /\ UNCHANGED <<phase, storedInterval, storageWorks, call, refreshInterval,
                 autoRefreshTimer, activeTimers, nextTimerId, arg, ret,
                 now, clockSteppedBack>>

\* the refresh-interval select changes, lines 398-402; saveLocalSettings
\* (lines 210-212) has no try/catch, so a failing setItem ends the handler
ChangeInterval(v) ==
  /\ phase = "run"
  /\ (storageWorks /\ GreaterThanZero(v)) => nextTimerId <= MaxTimerId
  /\ refreshInterval' = v
  /\ IF storageWorks
       THEN /\ storedInterval' = v
            /\ CommitTimers(restartAutoRefresh(Timers, v))
       ELSE UNCHANGED <<storedInterval, autoRefreshTimer, activeTimers, nextTimerId>>
  /\ UNCHANGED <<phase, statusConfigs, widgetKeys, dom, dbHistory, dbNotifications,
                 stored, storageWorks, cycles, started, returnedEarly, call, alls,
                 toggles, arg, ret,
                 now, clockSteppedBack>>

(***************************************************************************)
(* The suspension points of fetchStatus and what resumes after them.       *)
(***************************************************************************)
\* fetchStatus settles for cycle c: refreshWidget resumes (lines 603-611),
\* then the refreshAllWidgets loop that awaits it
Settle(c, exit, out) ==
  LET r == onSettle(cycles[c].call, exit, out).result IN
  /\ \E alertThrows \in BOOLEAN :
       Commit(ResumeCaller(refreshWidgetSettle(Here, c, r, alertThrows), cycles[c].owner))
  /\ UNCHANGED <<phase, statusConfigs, storedInterval, storageWorks, call, refreshInterval,
                 autoRefreshTimer, activeTimers, nextTimerId, toggles, arg, ret,
                 now, clockSteppedBack>>

\* fetch() rejects: network failure (line 638)
FetchRejects(c) ==
  /\ c \in 1..Len(cycles)
  /\ cycles[c].call.stage = "fetching"
  /\ Settle(c, "rejected", Throw)

\* the 8 s timeout fires and aborts the request (line 635)
TimeoutFires(c) ==
  /\ c \in 1..Len(cycles)
  /\ cycles[c].call.stage = "fetching"
  /\ cycles[c].call.timer
  /\ Settle(c, "aborted", Throw)

HttpStatuses == {"2xx", "4xx", "5xx"}

\* the responses the polled endpoints give: s1 is a JSON status API, s2 an
\* HTML status page
Responses(id) ==
  IF id = "s1" THEN {[http |-> "2xx", ct |-> ctJson]}
  ELSE {[http |-> "2xx", ct |-> ctHtml]}

\* fetch() resolves with the response headers (lines 638-652)
ResponseArrives(c, http, ct) ==
  /\ c \in 1..Len(cycles)
  /\ cycles[c].call.stage = "fetching"
  /\ [http |-> http, ct |-> ct] \in Responses(cycles[c].id)
  /\ cycles' = [cycles EXCEPT ![c].call = onResponse(@, http, ct)]
  /\ UNCHANGED <<phase, statusConfigs, widgetKeys, dom, dbHistory, dbNotifications,
                 stored, storedInterval, storageWorks, started, returnedEarly, call,
                 alls, refreshInterval, autoRefreshTimer, activeTimers, nextTimerId,
                 toggles, arg, ret,
                 now, clockSteppedBack>>

\* what the normalizers (lines 644-653) make of the bodies these endpoints
\* send, worked out once per body
JsonResults == [b \in JsonBodies |-> Normalize("json", b)]
TextResults == [p \in {"rss", "html"} |-> [b \in TextBodies |-> Normalize(p, b)]]

\* res.json() resolves with the parsed body (line 644)
JsonArrives(c, json) ==
  /\ c \in 1..Len(cycles)
  /\ cycles[c].call.stage = "reading"
  /\ cycles[c].call.parser = "json"
  /\ LET out == JsonResults[json]
     IN Settle(c, IF out.thrown THEN "threw" ELSE "returned", out)

\* res.text() resolves with the raw body (lines 648, 652)
TextArrives(c, text) ==
  /\ c \in 1..Len(cycles)
  /\ cycles[c].call.stage = "reading"
  /\ cycles[c].call.parser # "json"
  /\ LET out == TextResults[cycles[c].call.parser][text]
     IN Settle(c, IF out.thrown THEN "threw" ELSE "returned", out)

\* res.json() / res.text() rejects: the body cannot be read or parsed
BodyFails(c) ==
  /\ c \in 1..Len(cycles)
  /\ cycles[c].call.stage = "reading"
  /\ Settle(c, "readfailed", Throw)


\* the refresh pipeline: every handler that starts or resumes a refresh
Next ==
  \/ Startup
  \/ \E id \in Sources : RefreshWidgetCall(id)
  \/ RefreshAllClick
  \/ TimerTick
  \/ \E i \in 1..2 : Toggle(i)
  \/ \E c \in 1..MaxCycles : FetchRejects(c)
  \/ \E c \in 1..MaxCycles : TimeoutFires(c)
  \/ \E c \in 1..MaxCycles, h \in HttpStatuses, ct \in {ctJson, ctHtml} :
       ResponseArrives(c, h, ct)
  \/ \E c \in 1..MaxCycles, b \in JsonBodies : JsonArrives(c, b)
  \/ \E c \in 1..MaxCycles, b \in TextBodies : TextArrives(c, b)
  \/ \E c \in 1..MaxCycles : BodyFails(c)

Spec == Init /\ [][Next]_vars

\* the browser runs a timeout callback that is due (line 635); the network
\* owes nothing
FairSpec == Init /\ [][Next]_vars /\ \A c \in 1..MaxCycles : WF_vars(TimeoutFires(c))

\* the same pipeline in a session whose localStorage refuses every write
\* (quota exceeded, storage disabled)
StoreFailsInit ==
  /\ phase = "boot"
  /\ storageWorks = FALSE
  /\ storedInterval = Absent
  /\ SysInit
  /\ arg = <<>>
  /\ ret = "none"

StoreFailsSpec == StoreFailsInit /\ [][Next]_vars

(***************************************************************************)
(* fetchStatus called on its own, over every kind of response.             *)
(***************************************************************************)
FetchContentTypes == {ctJson, ctJsonCharset, ctJsonXml, ctProblemJson, ctRss, ctXml,
                      ctAtom, ctHtml, ctHtmlCharset, ctPlain, ctNone}
FetchJsonBodies == {jsonNull, jsonEmpty, jsonEmptyStatus, jsonNumericStatus,
                    jsonObjectStatus, jsonNumberBody, jsonArrayBody,
                    jsonOperational, jsonMajor, jsonPartial}
FetchTextBodies == {bodyRssItem, bodyRssEmpty, bodyHtmlOperational, bodyHtmlIncident,
                    bodyHtmlError, <<>>}

CallUnchanged ==
  UNCHANGED <<phase, statusConfigs, widgetKeys, dom, dbHistory, dbNotifications,
              stored, storedInterval, storageWorks, cycles, started, returnedEarly,
              alls, refreshInterval, autoRefreshTimer, activeTimers, nextTimerId,
              toggles, arg, ret,
                 now, clockSteppedBack>>

\* fetchStatus(url) is called (lines 633-638)
FetchStatusCall ==
  /\ call.stage = "idle"
  /\ call' = NewCall
  /\ CallUnchanged

\* fetch() rejects (line 638)
CallRejects ==
  /\ call.stage = "fetching"
  /\ call' = onSettle(call, "rejected", Throw)
  /\ CallUnchanged

\* the 8 s timeout fires and aborts the request (line 635)
CallTimeout ==
  /\ call.stage = "fetching"
  /\ call.timer
  /\ call' = onSettle(call, "aborted", Throw)
  /\ CallUnchanged

\* fetch() resolves with the response headers (lines 638-652)
CallResponse(http, ct) ==
  /\ call.stage = "fetching"
  /\ call' = onResponse(call, http, ct)
  /\ CallUnchanged

\* res.json() resolves (line 644)
CallJson(json) ==
  /\ call.stage = "reading"
  /\ call.parser = "json"
  /\ LET out == Normalize("json", json)
     IN call' = onSettle(call, IF out.thrown THEN "threw" ELSE "returned", out)
  /\ CallUnchanged

\* res.text() resolves (lines 648, 652)
CallText(text) ==
  /\ call.stage = "reading"
  /\ call.parser # "json"
  /\ LET out == Normalize(call.parser, text)
     IN call' = onSettle(call, IF out.thrown THEN "threw" ELSE "returned", out)
  /\ CallUnchanged

\* res.json() / res.text() rejects
CallBodyFails ==
  /\ call.stage = "reading"
  /\ call' = onSettle(call, "readfailed", Throw)
  /\ CallUnchanged

FetchNext ==
  \/ FetchStatusCall
  \/ CallRejects
  \/ CallTimeout
  \/ \E h \in HttpStatuses, ct \in FetchContentTypes : CallResponse(h, ct)
  \/ \E b \in FetchJsonBodies : CallJson(b)
  \/ \E b \in FetchTextBodies : CallText(b)
  \/ CallBodyFails

FetchSpec == Init /\ [][FetchNext]_vars

\* the browser runs a timer callback that is due; the network owes nothing
FairFetchSpec == Init /\ [][FetchNext]_vars /\ WF_vars(CallTimeout)

(***************************************************************************)
(* The pure functions, applied to every string of at most MaxChunks chunks *)
(* of the vocabulary.                                                      *)
(***************************************************************************)
Vocabulary ==
  { kwOperational, kwOk, <<"O","K">>, kwPartial, kwMinor, kwDegrad, kwMajor,
    <<"M","a","j","o","r">>, kwDown, <<"D","O","W","N">>, kwCritical,
    <<"o">>, <<"k">>, <<" ">> }

RECURSIVE Strings(_)
Strings(n) ==
  IF n = 0 THEN {<<>>}
  ELSE LET shorter == Strings(n - 1)
       IN shorter \cup {s \o w : s \in shorter, w \in Vocabulary}

StatusStrings == Strings(MaxChunks)

PureInit ==
  /\ phase = "boot"
  /\ storageWorks = TRUE
  /\ storedInterval = Absent
  /\ SysInit
  /\ arg \in StatusStrings
  /\ ret = "none"

\* mapStatus(arg) is evaluated
ApplyMapStatus ==
  /\ ret = "none"
  /\ ret' = mapStatus(arg)
  /\ UNCHANGED <<phase, statusConfigs, widgetKeys, dom, dbHistory, dbNotifications,
                 stored, storedInterval, storageWorks, cycles, started, returnedEarly,
                 call, alls, refreshInterval, autoRefreshTimer, activeTimers,
                 nextTimerId, toggles, arg,
                 now, clockSteppedBack>>

PureNext == ApplyMapStatus

PureSpec == PureInit /\ [][PureNext]_vars

(***************************************************************************)
(* The normalizers applied on their own: to JSON values of every shape and *)
(* to every text of at most MaxChunks chunks.                              *)
(***************************************************************************)
TextVocabulary ==
  { kwItem, <<"<","I","T","E","M",">">>, <<"i","t","e","m">>, <<"<","r","s","s",">">>,
    kwDegrad, <<"I","n","c","i","d","e","n","t">>, <<"P","A","R","T","I","A","L">>,
    kwOperational, <<" ">> }

RECURSIVE Texts(_)
Texts(n) ==
  IF n = 0 THEN {<<>>}
  ELSE LET shorter == Texts(n - 1)
       IN shorter \cup {s \o w : s \in shorter, w \in TextVocabulary}

NormStatusFields ==
  {fUndefined, fNull, fObject, fNumber(<<"5">>), fNumber(<<"0">>)}
    \cup {fString(s) : s \in Strings(1)}
NormDescFields ==
  {fUndefined, fString(<<>>), fString(txtAllSystemsGo), fString(txtCriticalOutage),
   fNumber(<<"5">>)}
NormJsonBodies ==
  {jsonNull, jsonNumberBody, jsonStringBody, jsonArrayBody}
    \cup {jsonObject(st, d) : st \in NormStatusFields, d \in NormDescFields}

NormInit ==
  /\ phase = "boot"
  /\ storageWorks = TRUE
  /\ storedInterval = Absent
  /\ SysInit
  /\ \/ arg \in {[parser |-> "json", body |-> b] : b \in NormJsonBodies}
     \/ arg \in {[parser |-> p, body |-> b] : p \in {"rss", "html"}, b \in Texts(MaxChunks)}
  /\ ret = NoResult

\* the normalizer for arg.parser is called with arg.body (lines 644, 649, 653)
ApplyNormalize ==
  /\ ret = NoResult
  /\ ret' = Normalize(arg.parser, arg.body)
  /\ UNCHANGED <<phase, statusConfigs, widgetKeys, dom, dbHistory, dbNotifications,
                 stored, storedInterval, storageWorks, cycles, started, returnedEarly,
                 call, alls, refreshInterval, autoRefreshTimer, activeTimers,
                 nextTimerId, toggles, arg, now, clockSteppedBack>>

NormNext == ApplyNormalize

NormSpec == NormInit /\ [][NormNext]_vars

\* the timers: the auto-refresh interval and its changes, the ticks and the
\* request timeouts, while the network stays silent
TimerNext ==
  \/ Startup
  \/ \E v \in IntervalChoices : ChangeInterval(v)
  \/ TimerTick
  \/ \E c \in 1..MaxCycles : TimeoutFires(c)

\* any earlier session may have left an interval in the store, and the store
\* may refuse writes
TimerInit ==
  /\ phase = "boot"
  /\ storageWorks \in BOOLEAN
  /\ SysInit
  /\ storedInterval \in {Absent, Num(30), Num(0)}
  /\ arg = <<>>
  /\ ret = "none"

TimerSpec == TimerInit /\ [][TimerNext]_vars

(***************************************************************************)
(* The history under a moving wall clock: refresh cycles start, overlap    *)
(* and end by their timeout while Date.now() (lines 748, 812, 988) follows *)
(* the system clock, which the user or a time synchronisation can set.     *)
(***************************************************************************)
ClockUnchanged ==
  UNCHANGED <<phase, statusConfigs, widgetKeys, dom, dbHistory, dbNotifications,
              stored, storedInterval, storageWorks, cycles, started, returnedEarly,
              call, alls, refreshInterval, autoRefreshTimer, activeTimers,
              nextTimerId, toggles, arg, ret>>

\* time passes
ClockAdvances ==
  /\ now < MaxClock
  /\ now' = now + 1
  /\ UNCHANGED clockSteppedBack
  /\ ClockUnchanged

\* the system clock is set back
ClockStepsBack ==
  /\ \E t \in 0..(now - 1) : now' = t
  /\ clockSteppedBack' = TRUE
  /\ ClockUnchanged

HistoryNext ==
  \/ Startup
  \/ \E id \in Sources : RefreshWidgetCall(id)
  \/ \E c \in 1..MaxCycles : TimeoutFires(c)
  \/ ClockAdvances
  \/ ClockStepsBack

HistorySpec == Init /\ [][HistoryNext]_vars

(***************************************************************************)
(* The public snapshot: createPublicSnapshot, lines 856-872.  In this part *)
(* a string is the sequence of its UTF-16 code units, as JSON.stringify    *)
(* and btoa see it.                                                        *)
(***************************************************************************)
\* the code units of the identifiers and keywords that occur in a snapshot
Units(s) ==
  CASE s = "created" -> <<99,114,101,97,116,101,100>> []
  s = "widgets" -> <<119,105,100,103,101,116,115>> []
  s = "history" -> <<104,105,115,116,111,114,121>> []
  s = "id" -> <<105,100>> []
  s = "name" -> <<110,97,109,101>> []
  s = "enabled" -> <<101,110,97,98,108,101,100>> []
  s = "widgetId" -> <<119,105,100,103,101,116,73,100>> []
  s = "level" -> <<108,101,118,101,108>> []
  s = "message" -> <<109,101,115,115,97,103,101>> []
  s = "ts" -> <<116,115>> []
  s = "true" -> <<116,114,117,101>> []
  s = "false" -> <<102,97,108,115,101>> []
  s = "s1" -> <<115,49>> []
  s = "s2" -> <<115,50>> []
  s = "ok" -> <<111,107>> []
  s = "warning" -> <<119,97,114,110,105,110,103>> []
  s = "major" -> <<109,97,106,111,114>> []
  s = "unknown" -> <<117,110,107,110,111,119,110>>

\* texts a source name or a status message can hold: "OK", "caf\u00E9",
\* a text with a quote and a backslash, and "\u2713 up"
txtOK == <<79, 75>>
txtCafe == <<99, 97, 102, 233>>
txtQuoted == <<34, 97, 92>>
txtCheckMark == <<10003, 32, 117, 112>>
SnapTexts == {txtOK, txtCafe, txtQuoted, txtCheckMark}

\* Number.prototype.toString for a non-negative integer
RECURSIVE Digits(_)
Digits(n) == IF n < 10 THEN <<48 + n>> ELSE Digits(n \div 10) \o <<48 + (n % 10)>>

\* JSON.stringify of a string (QuoteJSONString): the quote and the backslash
\* are escaped, every other unit of these texts is copied
RECURSIVE Escaped(_)
Escaped(t) ==
  IF t = <<>> THEN <<>>
  ELSE (IF Head(t) \in {34, 92} THEN <<92, Head(t)>> ELSE <<Head(t)>>) \o Escaped(Tail(t))
Quote(t) == <<34>> \o Escaped(t) \o <<34>>

\* "key":value
Member(key, value) == Quote(Units(key)) \o <<58>> \o value

\* the elements of q, each rendered by its text in texts, separated by commas
RECURSIVE Joined(_)
Joined(texts) ==
  IF texts = <<>> THEN <<>>
  ELSE IF Len(texts) = 1 THEN texts[1]
  ELSE texts[1] \o <<44>> \o Joined(Tail(texts))

\* JSON.stringify of a source config, of a history entry and of the snapshot
StringifyConfig(w) ==
  <<123>> \o Member("id", Quote(Units(w.id))) \o <<44>> \o Member("name", Quote(w.name))
    \o (IF w.enabled = "absent" THEN <<>>
        ELSE <<44>> \o Member("enabled", Units(w.enabled)))
    \o <<125>>
StringifyEntry(e) ==
  <<123>> \o Member("widgetId", Quote(Units(e.widgetId))) \o <<44>>
    \o Member("name", Quote(Units(e.name))) \o <<44>>
    \o Member("level", Quote(Units(e.level))) \o <<44>>
    \o Member("message", Quote(e.message)) \o <<44>>
    \o Member("ts", Digits(e.ts)) \o <<125>>
Stringify(snapshot) ==
  <<123>> \o Member("created", Digits(snapshot.created)) \o <<44>>
    \o Member("widgets",
              <<91>> \o Joined([i \in 1..Len(snapshot.widgets) |->
                                  StringifyConfig(snapshot.widgets[i])]) \o <<93>>)
    \o <<44>>
    \o Member("history",
              <<91>> \o Joined([i \in 1..Len(snapshot.history) |->
                                  StringifyEntry(snapshot.history[i])]) \o <<93>>)
    \o <<125>>

\* btoa: the base64 text of a string of bytes, as the indexes of its
\* characters in the base64 alphabet (64 is the padding "="); a unit above
\* 255 raises InvalidCharacterError
Base64(b) ==
  [k \in 1..(4 * ((Len(b) + 2) \div 3)) |->
     LET g == 3 * ((k - 1) \div 4)
         has(i) == g + i <= Len(b)
         byte(i) == IF has(i) THEN b[g + i] ELSE 0
     IN CASE (k - 1) % 4 = 0 -> byte(1) \div 4
          [] (k - 1) % 4 = 1 -> (byte(1) % 4) * 16 + byte(2) \div 16
          [] (k - 1) % 4 = 2 -> IF has(2) THEN (byte(2) % 16) * 4 + byte(3) \div 64 ELSE 64
          [] OTHER -> IF has(3) THEN byte(3) % 64 ELSE 64]
NoText == [thrown |-> FALSE, text |-> <<>>]
btoa(t) ==
  IF \E i \in 1..Len(t) : t[i] > 255 THEN [thrown |-> TRUE, text |-> <<>>]
  ELSE [thrown |-> FALSE, text |-> Base64(t)]

\* lines 857-863: the snapshot object and its encoding
EnabledForSnapshot(w) == w.enabled = "true"
createPublicSnapshot(configs, history, created) ==
  LET snapshot == [created |-> created,
                   widgets |-> SelectSeq(configs, EnabledForSnapshot),
                   history |-> history]
      json == btoa(Stringify(snapshot))
  IN [built |-> TRUE, thrown |-> json.thrown, snapshot |-> snapshot, json |-> json.text]

\* Decoding the link: atob, then JSON.parse.  atob turns each four base64
\* characters back into up to three bytes.
atob(x) ==
  LET pad == Cardinality({k \in 1..Len(x) : x[k] = 64})
      c(k) == IF x[k] = 64 THEN 0 ELSE x[k]
  IN [i \in 1..(3 * (Len(x) \div 4) - pad) |->
        LET g == 4 * ((i - 1) \div 3)
        IN CASE (i - 1) % 3 = 0 -> c(g + 1) * 4 + c(g + 2) \div 16
             [] (i - 1) % 3 = 1 -> (c(g + 2) % 16) * 16 + c(g + 3) \div 4
             [] OTHER -> (c(g + 3) % 4) * 64 + c(g + 4)]

\* JSON.parse of a string literal that starts at t[p]: the value and the
\* position after the closing quote
RECURSIVE ReadChars(_, _, _)
ReadChars(t, i, acc) ==
  IF t[i] = 34 THEN [v |-> acc, p |-> i + 1]
  ELSE IF t[i] = 92 THEN ReadChars(t, i + 2, Append(acc, t[i + 1]))
  ELSE ReadChars(t, i + 1, Append(acc, t[i]))
ReadString(t, p) == ReadChars(t, p + 1, <<>>)

\* JSON.parse of a number that starts at t[p]
RECURSIVE ReadDigits(_, _, _)
ReadDigits(t, i, acc) ==
  IF i <= Len(t) /\ t[i] \in 48..57 THEN ReadDigits(t, i + 1, acc * 10 + (t[i] - 48))
  ELSE [v |-> acc, p |-> i]
ReadNumber(t, p) == ReadDigits(t, p, 0)

\* the identifier with the given code units
Named(u) == CHOOSE s \in {"s1", "s2", "ok", "warning", "major", "unknown"} : Units(s) = u

\* the value of the member whose key starts at t[p]: a string, a number
ReadStringMember(t, p) == ReadString(t, ReadString(t, p).p + 1)
ReadNumberMember(t, p) == ReadNumber(t, ReadString(t, p).p + 1)

\* JSON.parse of a source config object that starts at t[p]
ReadConfig(t, p) ==
  LET id == ReadStringMember(t, p + 1)
      name == ReadStringMember(t, id.p + 1)
      key == ReadString(t, name.p + 1)
      flag == t[key.p + 1]
  IN IF t[name.p] = 125
       THEN [v |-> [id |-> Named(id.v), enabled |-> "absent", name |-> name.v],
             p |-> name.p + 1]
       ELSE [v |-> [id |-> Named(id.v), enabled |-> IF flag = 116 THEN "true" ELSE "false",
                    name |-> name.v],
             p |-> key.p + (IF flag = 116 THEN 6 ELSE 7)]

\* JSON.parse of a history entry object that starts at t[p]
ReadEntry(t, p) ==
  LET widgetId == ReadStringMember(t, p + 1)
      name == ReadStringMember(t, widgetId.p + 1)
      level == ReadStringMember(t, name.p + 1)
      message == ReadStringMember(t, level.p + 1)
      ts == ReadNumberMember(t, message.p + 1)
  IN [v |-> [widgetId |-> Named(widgetId.v), name |-> Named(name.v),
             level |-> Named(level.v), message |-> message.v, ts |-> ts.v],
      p |-> ts.p + 1]

\* JSON.parse of the elements of an array, the next of which starts at t[p]
RECURSIVE ReadConfigs(_, _, _)
ReadConfigs(t, p, acc) ==
  IF t[p] = 93 THEN [v |-> acc, p |-> p + 1]
  ELSE LET w == ReadConfig(t, IF t[p] = 44 THEN p + 1 ELSE p)
       IN ReadConfigs(t, w.p, Append(acc, w.v))
RECURSIVE ReadEntries(_, _, _)
ReadEntries(t, p, acc) ==
  IF t[p] = 93 THEN [v |-> acc, p |-> p + 1]
  ELSE LET e == ReadEntry(t, IF t[p] = 44 THEN p + 1 ELSE p)
       IN ReadEntries(t, e.p, Append(acc, e.v))

\* JSON.parse of a snapshot text
JSONparse(t) ==
  LET created == ReadNumberMember(t, 2)
      wkey == ReadString(t, created.p + 1)
      widgets == ReadConfigs(t, wkey.p + 2, <<>>)
      hkey == ReadString(t, widgets.p + 1)
      history == ReadEntries(t, hkey.p + 2, <<>>)
  IN [created |-> created.v, widgets |-> widgets.v, history |-> history.v]

decodeSnapshot(json) == JSONparse(atob(json))

\* the configurations and histories a snapshot is taken of
MaxEntries == 2
Enabledness == {"true", "false", "absent"}
snapCfg(id, en, name) == [id |-> id, enabled |-> en, name |-> name]
SnapConfigChoices ==
  {<<>>}
    \cup {<<snapCfg("s1", e, n)>> : e \in Enabledness, n \in {txtOK, txtCheckMark}}
    \cup {<<snapCfg("s1", e, txtCafe), snapCfg("s2", f, txtQuoted)>> :
            e \in Enabledness, f \in Enabledness}
SnapEntries ==
  {[widgetId |-> "s1", name |-> "s1", level |-> "ok", message |-> m, ts |-> 0] :
     m \in {txtOK, txtCafe}}

NoSnapshot ==
  [built |-> FALSE, thrown |-> FALSE,
   snapshot |-> [created |-> 0, widgets |-> <<>>, history |-> <<>>], json |-> <<>>]

\* the dashboard is running with some configuration loaded and some history
\* kept from earlier cycles
SnapInit ==
  /\ phase = "run"
  /\ storageWorks = TRUE
  /\ storedInterval = Absent
  /\ IdleInit
  /\ statusConfigs \in SnapConfigChoices
  /\ dbHistory \in {<<>>} \cup {<<e>> : e \in SnapEntries}
  /\ arg = <<>>
  /\ ret = NoSnapshot

\* the "create public link" button: createPublicSnapshot(); ret is the
\* snapshot and the text shown in the link
CreateSnapshotClick ==
  /\ ret' = createPublicSnapshot(statusConfigs, dbHistory, now)
  /\ UNCHANGED <<phase, statusConfigs, widgetKeys, dom, dbHistory, dbNotifications,
                 stored, storedInterval, storageWorks, cycles, started, returnedEarly,
                 call, alls, refreshInterval, autoRefreshTimer, activeTimers,
                 nextTimerId, toggles, arg, now, clockSteppedBack>>

\* a refresh cycle writes its history entry: updateHistory (lines 740-755)
UpdateHistoryCall(level, message) ==
  /\ Len(dbHistory) < MaxEntries
  /\ Commit(updateHistory(Here, "s1", level, message))
  /\ UNCHANGED <<phase, statusConfigs, storedInterval, storageWorks, call,
                 refreshInterval, autoRefreshTimer, activeTimers, nextTimerId, toggles,
                 arg, ret, now, clockSteppedBack>>

SnapshotNext ==
  \/ CreateSnapshotClick
  \/ \E m \in SnapTexts : UpdateHistoryCall("major", m)
  \/ ClockAdvances

SnapshotSpec == SnapInit /\ [][SnapshotNext]_vars

(***************************************************************************)
(* Properties.                                                             *)
(***************************************************************************)
ErrorExits == {"rejected", "aborted", "readfailed", "threw"}
Unreachable == Return("unknown", msgUnreachable)

\* C1: fetchStatus never rejects or throws.  A call that left the try block
\* through the catch (the request was rejected or aborted, the body could
\* not be read or parsed, a normalizer threw) has resolved to
\* {unknown, "Unreachable / offline"}; every other settled call has resolved
\* to a result whose level is ok, warning, major or unknown.
C1_FetchStatusNeverFails ==
  call.stage = "settled" =>
    /\ ~call.result.thrown
    /\ call.result.level \in Levels
    /\ call.exit \in ErrorExits => call.result = Unreachable

C1_Witness ==
  /\ call.stage = "settled"
  /\ call.exit = "threw"
  /\ call.result = Unreachable

\* C2: every fetchStatus call eventually resolves, whether it is the response
\* headers or the response body that never arrives.
C2_EveryCallResolves == (call.stage = "fetching") ~> (call.stage = "settled")

\* the refreshWidget invocations that have finished, and those among them
\* that were made for a tracked widget
Finished == started - Len(cycles)
FinishedTracked == started - returnedEarly - Len(cycles)
IsPrefix(p, q) == Len(p) <= Len(q) /\ SubSeq(q, 1, Len(p)) = p

\* C3 as claimed: every finished refreshWidget invocation has written exactly
\* one history entry, on every path, the untracked id included.
C3_OneEntryPerInvocation == Len(dbHistory) = Finished

\* C3: in every step the history grows by exactly one entry for each
\* invocation for a tracked widget that finishes in the step, the entry is
\* for a source whose cycle was in flight, and nothing else is added or
\* changed; an invocation that returns because the id is no tracked widget
\* adds nothing.
C3_OneEntryPerTrackedInvocation ==
  [][ LET d == FinishedTracked' - FinishedTracked IN
      /\ d \in {0, 1}
      /\ Len(dbHistory') = Len(dbHistory) + d
      /\ IsPrefix(dbHistory, dbHistory')
      /\ d = 1 => \E c \in 1..Len(cycles) :
                    cycles[c].id = dbHistory'[Len(dbHistory')].widgetId ]_vars

C3_Witness ==
  /\ returnedEarly >= 1
  /\ FinishedTracked >= 2
  /\ Len(dbHistory) = FinishedTracked

MajorEntries(h) == {i \in 1..Len(h) : h[i].level = "major"}

\* C4: a step appends one notification if and only if it appends a history
\* entry whose level is major; the notification carries that entry's source
\* name and message.  Hence the notifications are as many as the history
\* entries of level major.
C4_NotificationIffMajor ==
  /\ [](Len(dbNotifications) = Cardinality(MajorEntries(dbHistory)))
  /\ [][ LET grew == Len(dbHistory') = Len(dbHistory) + 1
             e == dbHistory'[Len(dbHistory')]
         IN
         /\ IsPrefix(dbNotifications, dbNotifications')
         /\ IF grew /\ e.level = "major"
              THEN /\ Len(dbNotifications') = Len(dbNotifications) + 1
                   /\ dbNotifications'[Len(dbNotifications')] =
                        [title |-> e.name, message |-> e.message, ts |-> e.ts,
                         unread |-> TRUE]
              ELSE dbNotifications' = dbNotifications ]_vars

C4_Witness ==
  /\ Len(dbNotifications) = 1
  /\ \E i, j, k \in 1..Len(dbHistory) :
       /\ dbHistory[i].level = "major"
       /\ dbHistory[j].level = "warning"
       /\ dbHistory[k].level = "unknown"

OwnedBy(a) == {c \in 1..Len(cycles) : cycles[c].owner = a}

\* C5: a refreshAllWidgets invocation that has not gone through all its keys
\* has exactly one cycle in flight, the one of its current key, and has not
\* recomputed the counts; once it is through it has no cycle in flight and
\* has recomputed the counts exactly once.  It moves on to its next key only
\* in the step in which the cycle of the current key wrote its history entry.
C5_RefreshAllSequential ==
  /\ [](\A a \in 1..Len(alls) :
          IF alls[a].idx <= Len(alls[a].keys)
            THEN /\ alls[a].counted = 0
                 /\ Cardinality(OwnedBy(a)) = 1
                 /\ \A c \in OwnedBy(a) : cycles[c].id = alls[a].keys[alls[a].idx]
            ELSE /\ alls[a].counted = 1
                 /\ OwnedBy(a) = {})
  /\ [][ \A a \in 1..Len(alls) :
           alls'[a].idx # alls[a].idx =>
             /\ alls'[a].idx = alls[a].idx + 1
             /\ Len(dbHistory') = Len(dbHistory) + 1
             /\ dbHistory'[Len(dbHistory')].widgetId = alls[a].keys[alls[a].idx] ]_vars

C5_Witness ==
  \E a \in 1..Len(alls) :
    /\ Len(alls[a].keys) = 2
    /\ alls[a].idx = 3
    /\ alls[a].counted = 1

\* C6: at most one auto-refresh interval timer is active, and it is the one
\* OPM.autoRefreshTimer names.
C6_AtMostOneTimer ==
  /\ Cardinality(activeTimers) <= 1
  /\ \A t \in activeTimers : t.id = autoRefreshTimer

C6_Witness ==
  /\ nextTimerId = 3
  /\ refreshInterval = Num(30)
  /\ activeTimers = {[id |-> 2, period |-> 30000]}

InFlight(id) == {c \in 1..Len(cycles) : cycles[c].id = id}
Shows(id, m) == dom[id].present /\ dom[id].desc = m

\* C7 as claimed: a rendered source with a refresh cycle in flight shows
\* "Checking...", overlapping refreshes of the same source included.
C7_InFlightShowsChecking ==
  \A id \in Sources : (InFlight(id) # {} /\ dom[id].present) => Shows(id, msgChecking)

\* C7: the step that starts a refresh cycle for a rendered source leaves it
\* showing unknown / "Checking...", and a source with a cycle in flight keeps
\* showing "Checking..." until a cycle of that same source settles and
\* writes its history entry.
C7_CheckingUntilSettled ==
  [][ \A id \in Sources :
        /\ (Cardinality(InFlight(id)') > Cardinality(InFlight(id)) /\ dom'[id].present)
             => (dom'[id].desc = msgChecking /\ dom'[id].dot = "unknown")
        /\ (Shows(id, msgChecking) /\ InFlight(id) # {} /\ dom'[id].present
              /\ dom'[id].desc # msgChecking)
             => (/\ Len(dbHistory') = Len(dbHistory) + 1
                 /\ dbHistory'[Len(dbHistory')].widgetId = id) ]_vars

C7_Witness ==
  \E id \in Sources :
    /\ InFlight(id) # {}
    /\ Shows(id, msgChecking)
    /\ \E i \in 1..Len(dbHistory) : dbHistory[i].widgetId = id

\* C8: a response with a non-2xx status makes fetchStatus resolve to level
\* unknown, whatever its content type and body.
C8_Non2xxIsUnknown ==
  (call.stage = "settled" /\ call.http \in {"4xx", "5xx"}) => call.result.level = "unknown"

\* the tiers of the severity scale, in the order they are checked
Tiers ==
  << [level |-> "ok", words |-> {kwOperational, kwOk}],
     [level |-> "warning", words |-> {kwPartial, kwMinor, kwDegrad}],
     [level |-> "major", words |-> {kwMajor, kwDown, kwCritical}] >>
InTier(s, i) == \E w \in Tiers[i].words : includes(toLowerCase(s), w)
FirstTier(s) == CHOOSE i \in 1..3 : InTier(s, i) /\ \A j \in 1..(i - 1) : ~InTier(s, j)
Reference(s) == IF \E i \in 1..3 : InTier(s, i) THEN Tiers[FirstTier(s)].level ELSE "unknown"

\* C9: mapStatus gives every status string the level of the first tier
\* (ok, then warning, then major) one of whose words the lower-cased string
\* contains, and unknown when it contains none.
C9_MapStatusIsReference == ret # "none" => ret = Reference(arg)

C9_Witness ==
  /\ ret = "warning"
  /\ InTier(arg, 2)
  /\ InTier(arg, 3)

\* C10 as claimed: a string that contains "critical", "down" or "major" and
\* neither "operational" nor "ok" maps to major, even if it contains "minor".
C10_MajorEvenWithMinor ==
  (ret # "none" /\ InTier(arg, 3) /\ ~InTier(arg, 1)) => ret = "major"

\* C10: a string that contains "critical", "down" or "major" (in any letter
\* case) and neither "operational" nor "ok" maps to major if it contains none
\* of "partial", "minor", "degrad", and to warning if it contains one of them.
C10_MajorUnlessWarningWord ==
  (ret # "none" /\ InTier(arg, 3) /\ ~InTier(arg, 1)) =>
     ret = (IF InTier(arg, 2) THEN "warning" ELSE "major")

C10_Witness ==
  /\ ret = "major"
  /\ includes(arg, <<"D","O","W","N">>)
  /\ includes(arg, kwCritical)

(***************************************************************************)
(* loadConfigs: the two configuration files, over every way the two        *)
(* requests can end.  A JavaScript value that may or may not be an array   *)
(* is a record [t, items]; a parsed JSON document is [type, items, field], *)
(* field being the member the loader looks up (statusPages, integrations). *)
(***************************************************************************)
jsArray(items) == [t |-> "array", items |-> items]
jsString == [t |-> "string", items |-> <<>>]
jsObject == [t |-> "object", items |-> <<>>]
jsNull == [t |-> "null", items |-> <<>>]
jsMissing == [t |-> "undefined", items |-> <<>>]

oneConfig == <<cfg("s1", "true")>>

ConfigDocuments ==
  {[type |-> "array", items |-> i, field |-> jsMissing] : i \in {<<>>, oneConfig}}
  \cup {[type |-> "object", items |-> <<>>, field |-> f] :
          f \in {jsMissing, jsNull, jsArray(oneConfig), jsString, jsObject}}
  \cup {[type |-> ty, items |-> <<>>, field |-> jsMissing] : ty \in {"null", "number"}}

\* how one request ends: fetch rejects, or a response that is OK or not and
\* whose body parses or not
ConfigResponses ==
  {[settles |-> "rejects", ok |-> FALSE, parses |-> FALSE, json |-> d] :
     d \in {[type |-> "null", items |-> <<>>, field |-> jsMissing]}}
  \cup {[settles |-> "response", ok |-> FALSE, parses |-> TRUE, json |-> d] :
     d \in {[type |-> "object", items |-> <<>>, field |-> jsMissing]}}
  \cup {[settles |-> "response", ok |-> TRUE, parses |-> FALSE, json |-> d] :
     d \in {[type |-> "null", items |-> <<>>, field |-> jsMissing]}}
  \cup {[settles |-> "response", ok |-> TRUE, parses |-> TRUE, json |-> d] :
     d \in ConfigDocuments}

\* JavaScript truthiness of the looked-up member
TruthyValue(v) == v.t \in {"array", "string", "object"}

\* Array.isArray(json) ? json : (json.<member> || [])
ConfigsOf(json) ==
  IF json.type = "array" THEN [thrown |-> FALSE, value |-> jsArray(json.items)]
  ELSE IF json.type = "null" THEN [thrown |-> TRUE, value |-> jsMissing]
  ELSE IF json.type = "object" /\ TruthyValue(json.field)
    THEN [thrown |-> FALSE, value |-> json.field]
  ELSE [thrown |-> FALSE, value |-> jsArray(<<>>)]

BothEmpty ==
  [loaded |-> TRUE, statusConfigs |-> jsArray(<<>>), integrationConfigs |-> jsArray(<<>>)]

LoadFails(statusRes, integRes) ==
  \/ statusRes.settles = "rejects"
  \/ integRes.settles = "rejects"
  \/ ~statusRes.ok
  \/ ~integRes.ok
  \/ ~statusRes.parses
  \/ ~integRes.parses

loadConfigs(statusRes, integRes) ==
  IF LoadFails(statusRes, integRes) THEN BothEmpty
  ELSE LET st == ConfigsOf(statusRes.json)
           ig == ConfigsOf(integRes.json)
       IN IF st.thrown \/ ig.thrown THEN BothEmpty
          ELSE [loaded |-> TRUE, statusConfigs |-> st.value,
                integrationConfigs |-> ig.value]

NotLoaded ==
  [loaded |-> FALSE, statusConfigs |-> jsArray(<<>>), integrationConfigs |-> jsArray(<<>>)]

LoaderInit ==
  /\ phase = "boot"
  /\ storageWorks = TRUE
  /\ storedInterval = Absent
  /\ SysInit
  /\ arg \in [status : ConfigResponses, integ : ConfigResponses]
  /\ ret = NotLoaded

\* await loadConfigs() in the DOMContentLoaded handler
LoadConfigsCall ==
  /\ phase = "boot"
  /\ ~ret.loaded
  /\ ret' = loadConfigs(arg.status, arg.integ)
  /\ UNCHANGED <<phase, statusConfigs, widgetKeys, dom, dbHistory, dbNotifications,
                 stored, storedInterval, storageWorks, cycles, started, returnedEarly,
                 call, alls, refreshInterval, autoRefreshTimer, activeTimers,
                 nextTimerId, toggles, arg, now, clockSteppedBack>>

\* the rest of the handler: the admin tables and renderAllWidgets call
\* forEach / filter on the two values, which exist on arrays only; a
\* TypeError ends the handler in its catch before startAutoRefresh
StartupContinues ==
  /\ phase = "boot"
  /\ ret.loaded
  /\ phase' = IF ret.statusConfigs.t = "array" /\ ret.integrationConfigs.t = "array"
                THEN "run" ELSE "fatal"
  /\ UNCHANGED <<statusConfigs, widgetKeys, dom, dbHistory, dbNotifications,
                 stored, storedInterval, storageWorks, cycles, started, returnedEarly,
                 call, alls, refreshInterval, autoRefreshTimer, activeTimers,
                 nextTimerId, toggles, arg, ret, now, clockSteppedBack>>

LoaderNext == LoadConfigsCall \/ StartupContinues

LoaderSpec == LoaderInit /\ [][LoaderNext]_vars


(***************************************************************************)
(* refreshWidget's continuation, statement by statement (lines 603-607).   *)
(* When fetchStatus settles the continuation is queued; once it runs it    *)
(* keeps the thread until it reaches an await or its end.                  *)
(***************************************************************************)
Statements == <<"setStatus", "logEvent", "updateHistory", "checkNotificationTrigger">>

\* the statements of the continuation that are awaited: none
AwaitedStatements_logEvent == {"logEvent"}

AwaitedStatements == {}

\* where a cycle whose fetchStatus has settled stands in the continuation
ContinuationStages == <<"settled", "at2", "at3", "at4">>
Position(stage) == CHOOSE k \in 1..Len(ContinuationStages) : ContinuationStages[k] = stage

\* what can raise inside the try block (lines 602-607): nothing, or the
\* named step; "alert" is the popup or the sound, after the notification
\* has been pushed and saved
Faults == {"none", "setStatus", "logEvent", "updateHistory", "pushNotification", "alert"}

Ran(S) == [state |-> S, raised |-> FALSE]
Raised(S) == [state |-> S, raised |-> TRUE]

\* one statement of the continuation, for the cycle c with result r
Execute(S, c, stmt, fault) ==
  LET id == S.cycles[c].id
      r == S.cycles[c].call.result
  IN
  IF stmt = fault THEN Raised(S)
  ELSE
  CASE stmt = "setStatus" -> Ran(setStatus(S, id, r.level, r.message))
    [] stmt = "logEvent" -> Ran(saveDB(S))
    [] stmt = "updateHistory" -> Ran(updateHistory(S, id, r.level, r.message))
    [] stmt = "checkNotificationTrigger" ->
         IF ~Triggers(r.level) THEN Ran(S)
         ELSE IF fault = "pushNotification" THEN Raised(S)
         ELSE IF fault = "alert" THEN Raised(pushNotification(S, id, r.message))
         ELSE Ran(pushNotification(S, id, r.message))

\* the catch of refreshWidget, lines 608-611: the invocation then ends
\* normally
refreshWidgetCatch_rethrow(S, id) == [state |-> S, outcome |-> "rejected"]

refreshWidgetCatch(S, id) ==
  [state |-> setStatus(S, id, "unknown", msgUnable), outcome |-> "resolved"]

RECURSIVE RunFrom(_, _, _, _)
RunFrom(S, c, k, fault) ==
  IF k > Len(Statements)
    THEN [state |-> [S EXCEPT !.cycles = RemoveAt(@, c)], outcome |-> "resolved"]
  ELSE LET x == Execute(S, c, Statements[k], fault) IN
       IF x.raised
         THEN refreshWidgetCatch([x.state EXCEPT !.cycles = RemoveAt(@, c)], S.cycles[c].id)
       ELSE IF Statements[k] \in AwaitedStatements /\ k < Len(Statements)
         THEN [state |-> [x.state EXCEPT !.cycles[c].call.stage = ContinuationStages[k + 1]],
               outcome |-> "pending"]
       ELSE RunFrom(x.state, c, k + 1, fault)

\* fetchStatus resolves for cycle c (line 603): the continuation is queued
FetchSettles(c, r) ==
  /\ c \in 1..Len(cycles)
  /\ cycles[c].call.stage = "fetching"
  /\ cycles' = [cycles EXCEPT ![c].call = onSettle(@, "returned", r)]
  /\ UNCHANGED <<phase, statusConfigs, widgetKeys, dom, dbHistory, dbNotifications,
                 stored, storedInterval, storageWorks, started, returnedEarly, call,
                 alls, refreshInterval, autoRefreshTimer, activeTimers, nextTimerId,
                 toggles, arg, ret, now, clockSteppedBack>>

\* the queued continuation of cycle c runs; the popup or the sound may raise
RunContinuation(c) ==
  /\ c \in 1..Len(cycles)
  /\ \E k \in 1..Len(ContinuationStages) : cycles[c].call.stage = ContinuationStages[k]
  /\ \E fault \in {"none", "alert"} :
       Commit(RunFrom(Here, c, Position(cycles[c].call.stage), fault).state)
  /\ UNCHANGED <<phase, statusConfigs, storedInterval, storageWorks, call, refreshInterval,
                 autoRefreshTimer, activeTimers, nextTimerId, toggles, arg, ret,
                 now, clockSteppedBack>>

StatementNext ==
  \/ Startup
  \/ \E id \in Sources : RefreshWidgetCall(id)
  \/ \E c \in 1..MaxCycles, b \in JsonBodies : FetchSettles(c, JsonResults[b])
  \/ \E c \in 1..MaxCycles : RunContinuation(c)

StatementSpec == Init /\ [][StatementNext]_vars

(***************************************************************************)
(* refreshWidget with a step of its try block raising.  ret records the    *)
(* invocation that ended last: its source, whether a step raised, and how  *)
(* the invocation ended.                                                   *)
(***************************************************************************)
NoOutcome == [id |-> "none", raised |-> FALSE, outcome |-> "none"]

FaultInit ==
  /\ phase = "boot"
  /\ storageWorks = TRUE
  /\ storedInterval = Absent
  /\ SysInit
  /\ arg = <<>>
  /\ ret = NoOutcome

\* the continuation of cycle c runs and the step named by fault raises
RunWithFault(c, fault) ==
  /\ c \in 1..Len(cycles)
  /\ cycles[c].call.stage = "settled"
  /\ LET x == RunFrom(Here, c, 1, fault) IN
     /\ Commit(x.state)
     /\ ret' = [id |-> cycles[c].id, outcome |-> x.outcome,
                raised |-> \E k \in 1..Len(Statements) :
                             Execute(Here, c, Statements[k], fault).raised]
  /\ UNCHANGED <<phase, statusConfigs, storedInterval, storageWorks, call, refreshInterval,
                 autoRefreshTimer, activeTimers, nextTimerId, toggles, arg,
                 now, clockSteppedBack>>

\* the awaited fetchStatus itself rejects (it has no path that does; the
\* catch of refreshWidget is written for the case)
FetchStatusRaises(c) ==
  /\ c \in 1..Len(cycles)
  /\ cycles[c].call.stage = "fetching"
  /\ LET x == refreshWidgetCatch([Here EXCEPT !.cycles = RemoveAt(@, c)], cycles[c].id) IN
     /\ Commit(x.state)
     /\ ret' = [id |-> cycles[c].id, outcome |-> x.outcome, raised |-> TRUE]
  /\ UNCHANGED <<phase, statusConfigs, storedInterval, storageWorks, call, refreshInterval,
                 autoRefreshTimer, activeTimers, nextTimerId, toggles, arg,
                 now, clockSteppedBack>>

FaultNext ==
  \/ Startup
  \/ \E id \in Sources : RefreshWidgetCall(id)
  \/ \E c \in 1..MaxCycles, b \in JsonBodies : FetchSettles(c, JsonResults[b])
  \/ \E c \in 1..MaxCycles, fault \in Faults : RunWithFault(c, fault)
  \/ \E c \in 1..MaxCycles : FetchStatusRaises(c)

FaultSpec == FaultInit /\ [][FaultNext]_vars



(***************************************************************************)
(* updateOverviewCounts, lines 695-719, on a grid whose two sources show   *)
(* the results of their last refresh cycles.                               *)
(***************************************************************************)
kwWarn == <<"w","a","r","n">>

\* the class a widget's description text falls in (lines 709-712)
CountClass(desc) ==
  LET d == toLowerCase(desc) IN
  IF includes(d, kwOk) \/ includes(d, kwOperational) THEN "ok"
  ELSE IF includes(d, kwWarn) \/ includes(d, kwDegrad) THEN "warn"
  ELSE IF includes(d, kwMajor) \/ includes(d, kwDown) THEN "down"
  ELSE "unknown"

\* descEl?.textContent || ""
DescText(D, id) == IF D[id].present THEN D[id].desc ELSE <<>>

updateOverviewCounts(keys, D) ==
  LET n(class) == Cardinality({i \in 1..Len(keys) : CountClass(DescText(D, keys[i])) = class})
  IN [computed |-> TRUE, ok |-> n("ok"), warn |-> n("warn"), down |-> n("down"),
      unknown |-> n("unknown")]

NoCounts == [computed |-> FALSE, ok |-> 0, warn |-> 0, down |-> 0, unknown |-> 0]

\* what fetchStatus resolves to for the bodies the normalizers are given
CountResults ==
  {Normalize("json", b) : b \in {jsonOperational, jsonMajor, jsonPartial, jsonEmpty}}
  \cup {Normalize("rss", b) : b \in {bodyRssItem, bodyRssEmpty}}
  \cup {Normalize("html", b) : b \in {bodyHtmlOperational, bodyHtmlIncident}}
  \cup {Return("unknown", msgUnreachable)}

\* both sources have been refreshed by refreshAllWidgets and are at rest
CountsInit ==
  /\ phase = "run"
  /\ storageWorks = TRUE
  /\ storedInterval = Absent
  /\ now = 0
  /\ clockSteppedBack = FALSE
  /\ statusConfigs = <<cfg("s1", "true"), cfg("s2", "true")>>
  /\ widgetKeys = <<"s1", "s2">>
  /\ \E r1, r2 \in CountResults :
       LET S0 == [dom |-> [x \in Sources |->
                             [present |-> TRUE, dot |-> "unknown", desc |-> msgChecking]],
                  hist |-> <<>>, notifs |-> <<>>, stored |-> NoDocument, cycles |-> <<>>,
                  alls |-> <<>>, keys |-> <<"s1", "s2">>, started |-> 2,
                  returnedEarly |-> 0, now |-> 0]
           S1 == updateHistory(setStatus(S0, "s1", r1.level, r1.message), "s1", r1.level, r1.message)
           S2 == updateHistory(setStatus(S1, "s2", r2.level, r2.message), "s2", r2.level, r2.message)
       IN /\ dom = S2.dom
          /\ dbHistory = S2.hist
          /\ stored = S2.stored
  /\ dbNotifications = <<>>
  /\ cycles = <<>>
  /\ started = 2
  /\ returnedEarly = 0
  /\ call = NoCall
  /\ alls = <<>>
  /\ refreshInterval = Num(30)
  /\ autoRefreshTimer = 0
  /\ activeTimers = {}
  /\ nextTimerId = 1
  /\ toggles = 0
  /\ arg = <<>>
  /\ ret = NoCounts

\* line 591: the loop of refreshAllWidgets is through
UpdateOverviewCountsCall ==
  /\ ~ret.computed
  /\ ret' = updateOverviewCounts(widgetKeys, dom)
  /\ UNCHANGED <<phase, statusConfigs, widgetKeys, dom, dbHistory, dbNotifications,
                 stored, storedInterval, storageWorks, cycles, started, returnedEarly,
                 call, alls, refreshInterval, autoRefreshTimer, activeTimers,
                 nextTimerId, toggles, arg, now, clockSteppedBack>>

CountsNext == UpdateOverviewCountsCall

CountsSpec == CountsInit /\ [][CountsNext]_vars


\* C11 as claimed: no normalizer throws, whatever the body: a fetchStatus
\* call never leaves its try block because a normalizer raised.
C11_NoNormalizerThrows == call.exit # "threw"

Normalized(p) == arg.parser = p /\ ret # NoResult

\* C12 as claimed: the JSON normalizer returns {unknown, "Unknown JSON
\* format"} when the payload has no status field; when the field is present
\* the level is mapStatus(status) and the message is status_description, or
\* "Status received" when the description is absent.
C12_JsonByPresence ==
  Normalized("json") =>
    ret = (IF arg.body.status.t = "undefined"
             THEN Return("unknown", msgUnknownJson)
             ELSE Return(Reference(arg.body.status.v),
                         IF arg.body.status_description.t = "undefined"
                           THEN msgStatusReceived
                           ELSE arg.body.status_description.v))

\* C12: the JSON normalizer decides by truthiness.  For a payload that is
\* not null: a status that is absent, null, empty or zero gives {unknown,
\* "Unknown JSON format"}; a non-empty string status gives the level
\* mapStatus(status) and as message the status_description if that is
\* truthy, "Status received" if it is absent or empty; a null payload and a
\* truthy status that is not a string make the normalizer throw.
C12_JsonByTruthiness ==
  Normalized("json") =>
    ret = (IF arg.body.type = "null" THEN Throw
           ELSE IF ~Truthy(arg.body.status) THEN Return("unknown", msgUnknownJson)
           ELSE IF arg.body.status.t # "string" THEN Throw
           ELSE Return(Reference(arg.body.status.v),
                       IF Truthy(arg.body.status_description)
                         THEN arg.body.status_description.v
                         ELSE msgStatusReceived))

C12_Witness ==
  /\ Normalized("json")
  /\ arg.body = jsonObject(fString(kwMajor), fString(<<>>))
  /\ ret = Return("major", msgStatusReceived)

\* s contains t; with fold, letters are compared without regard to case
Matches(s, t, fold) ==
  \E i \in 1..Len(s) :
    /\ i + Len(t) - 1 <= Len(s)
    /\ \A j \in 1..Len(t) :
         (IF fold THEN LowerChar(s[i + j - 1]) ELSE s[i + j - 1]) = t[j]

\* C14: for a feed body the result is {warning, "Recent RSS incident"} if the
\* raw text contains "<item>" and {ok, "No recent incidents"} otherwise; for
\* an HTML/text body it is {warning, "Possible degradation"} if the text
\* contains "degrad", "incident" or "partial" in any letter case and
\* {ok, "Looks operational"} otherwise.
C14_MarkerTest ==
  /\ Normalized("rss") =>
       ret = (IF Matches(arg.body, kwItem, FALSE)
                THEN Return("warning", msgRssIncident)
                ELSE Return("ok", msgRssNone))
  /\ Normalized("html") =>
       ret = (IF \E w \in {kwDegrad, kwIncident, kwPartial} : Matches(arg.body, w, TRUE)
                THEN Return("warning", msgHtmlDegraded)
                ELSE Return("ok", msgHtmlOk))

C14_Witness ==
  /\ Normalized("html")
  /\ arg.body = <<"I","n","c","i","d","e","n","t">> \o <<" ">>
  /\ ret = Return("warning", msgHtmlDegraded)

\* the content kinds by the markers they contain
JsonKinds == {ct \in FetchContentTypes : Matches(ct, kwApplicationJson, FALSE)}
FeedKinds ==
  {ct \in FetchContentTypes : Matches(ct, kwXml, FALSE) \/ Matches(ct, kwRss, FALSE)}
\* the results a normalizer can return
ResultsOf(parser) ==
  IF parser = "rss" THEN {Return("warning", msgRssIncident), Return("ok", msgRssNone)}
  ELSE IF parser = "html" THEN {Return("warning", msgHtmlDegraded), Return("ok", msgHtmlOk)}
  ELSE {Return(l, m) : l \in Levels,
                       m \in {msgUnknownJson, msgStatusReceived, txtAllSystemsGo,
                              txtCriticalOutage}}

\* C13: a response whose content type contains "application/json" is parsed
\* as JSON, also when it contains "xml" or "rss"; otherwise one that contains
\* "xml" or "rss" is parsed as a feed; every other one, the missing header
\* and types with a charset parameter included, is parsed as HTML/text.  The
\* result a call returns is one of the chosen normalizer's results.
C13_ParserByPriority ==
  /\ [](call.parser # "none" =>
          call.parser = (IF call.ct \in JsonKinds THEN "json"
                         ELSE IF call.ct \in FeedKinds THEN "rss"
                         ELSE "html"))
  /\ [][ (call.stage = "reading" /\ call'.stage = "settled" /\ call'.exit = "returned")
          => (/\ call'.parser = call.parser
              /\ call'.result \in ResultsOf(call.parser)
              /\ \A p \in {"json", "rss", "html"} \ {call.parser} :
                   call'.result \notin ResultsOf(p)) ]_vars

C13_Witness ==
  /\ call.stage = "settled"
  /\ call.exit = "returned"
  /\ call.ct = ctJsonXml
  /\ call.parser = "json"

Chronological(h) == \A i, j \in 1..Len(h) : i < j => h[i].ts <= h[j].ts

\* C15 as claimed: every step leaves the existing history entries as an
\* unchanged prefix, and the timestamps of the entries are non-decreasing
\* along the sequence.
C15_AppendOnlyChronological ==
  /\ [][IsPrefix(dbHistory, dbHistory')]_vars
  /\ []Chronological(dbHistory)

\* C15: every step leaves the existing history entries as an unchanged
\* prefix, and every entry it appends is stamped with the reading of the wall
\* clock at that step; the timestamps are non-decreasing along the sequence
\* as long as the wall clock has not been set back.
C15_AppendOnlyClockStamped ==
  /\ [][ /\ IsPrefix(dbHistory, dbHistory')
         /\ \A i \in (Len(dbHistory) + 1)..Len(dbHistory') : dbHistory'[i].ts = now ]_vars
  /\ [](~clockSteppedBack => Chronological(dbHistory))

C15_Witness ==
  /\ ~clockSteppedBack
  /\ Len(dbHistory) >= 3
  /\ dbHistory[1].ts < dbHistory[2].ts
  /\ cycles # <<>>

\* C16 as claimed: building the snapshot never fails, and decoding the text
\* it produced gives back the snapshot's created, widgets and history, for
\* every name and message the store holds.
C16_SnapshotRoundTrip ==
  ret.built => (~ret.thrown /\ decodeSnapshot(ret.json) = ret.snapshot)

\* the source configs the dashboard treats as enabled: those it renders and
\* polls (line 553)
EnabledConfigs(cfgs) == SelectSeq(cfgs, LAMBDA w : w.enabled # "false")

\* C17 as claimed: the snapshot built in a step holds exactly the source
\* configs enabled at that moment, in configuration order and with every
\* field, and the whole history of that moment in insertion order; entries
\* appended later leave it as it is.
C17_SnapshotOfEnabledAndHistory ==
  [][ /\ (ret' # ret) => (/\ ret'.built
                          /\ ret'.snapshot.widgets = EnabledConfigs(statusConfigs)
                          /\ ret'.snapshot.history = dbHistory)
      /\ (dbHistory' # dbHistory) => ret' = ret ]_vars

Last(q) == q[Len(q)]
ShowsResult(id, e) ==
  dom'[id].present => (dom'[id].desc = e.message /\ dom'[id].dot = mapStatusToColor(e.level))

\* C18: in a session whose store refuses every write, a refresh cycle that
\* gets a result from fetchStatus still completes: the step in which it
\* finishes appends exactly one entry with that result to the in-memory
\* history, leaves the widget showing that result, and appends a
\* notification exactly if the level is major (the rule is evaluated);
\* nothing reaches the store.  Only a failing alert effect of that same
\* cycle replaces the shown result by "Unable to load".
C18_CycleCompletesWithoutStore ==
  /\ [](~storageWorks /\ ~stored.present)
  /\ [][ FinishedTracked' = FinishedTracked + 1 =>
          /\ Len(dbHistory') = Len(dbHistory) + 1
          /\ IsPrefix(dbHistory, dbHistory')
          /\ LET e == Last(dbHistory') IN
             /\ \E c \in 1..Len(cycles) : cycles[c].id = e.widgetId
             /\ \/ ShowsResult(e.widgetId, e)
                \/ Triggers(e.level) /\ dom'[e.widgetId].desc = msgUnable
             /\ Len(dbNotifications') = Len(dbNotifications) + (IF Triggers(e.level) THEN 1 ELSE 0) ]_vars

C18_Witness ==
  /\ ~storageWorks
  /\ ~stored.present
  /\ Len(dbNotifications) = 1
  /\ Len(dbHistory) >= 2
  /\ Last(dbHistory).level = "major"
  /\ dom[Last(dbHistory).widgetId].desc = txtCriticalOutage

StoredDocument ==
  [present |-> TRUE, history |-> dbHistory, notifications |-> dbNotifications]

\* C19: the store always holds the database as it is in memory; the step
\* that appends a history entry of level major also appends its notification
\* and persists both, exactly once, whether or not the popup or the sound
\* then raises (the widget then shows "Unable to load"), and no other step
\* touches the persisted notifications.
C19_AlertFailureKeepsPersistedState ==
  /\ [](stored.present => stored = StoredDocument)
  /\ [][ IF Len(dbHistory') = Len(dbHistory) + 1 /\ Last(dbHistory').level = "major"
           THEN /\ stored'.history = Append(stored.history, Last(dbHistory'))
                /\ Len(stored'.notifications) = Len(stored.notifications) + 1
                /\ IsPrefix(stored.notifications, stored'.notifications)
                /\ Last(stored'.notifications).message = Last(dbHistory').message
           ELSE stored'.notifications = stored.notifications ]_vars

C19_Witness ==
  /\ Len(dbHistory) >= 1
  /\ Last(dbHistory).level = "major"
  /\ dom[Last(dbHistory).widgetId].desc = msgUnable
  /\ stored.present
  /\ Len(stored.notifications) = 1
  /\ stored.history = dbHistory

IsSequence(v) == v.t = "array"

\* C20: when loadConfigs returns, the status configuration and the
\* integration configuration are both sequences, in every outcome: both
\* empty when either request fails, returns a non-OK status or an
\* unparsable body; otherwise, independently, the document itself when it
\* is a bare sequence, the wrapped member when the document carries it, and
\* the empty sequence when the member is missing.
C20_ConfigsAlwaysSequences ==
  ret.loaded =>
    /\ IsSequence(ret.statusConfigs)
    /\ IsSequence(ret.integrationConfigs)
    /\ LoadFails(arg.status, arg.integ) => ret = BothEmpty

\* C21: when a refresh cycle of a source finishes while another cycle of the
\* same source is in flight, the other cycle stays in flight (nothing is
\* cancelled), the finishing cycle appends its own history entry, and the
\* widget shows what that cycle wrote, whichever of the two was started
\* first: the status after both is the write of the one that finished last.
C21_OverlappingCyclesLastWriteWins ==
  [][ \A id \in Sources :
        (Cardinality(InFlight(id)) >= 2 /\ Cardinality(InFlight(id)') < Cardinality(InFlight(id)))
          => /\ Cardinality(InFlight(id)') = Cardinality(InFlight(id)) - 1
             /\ Len(dbHistory') = Len(dbHistory) + 1
             /\ IsPrefix(dbHistory, dbHistory')
             /\ Last(dbHistory').widgetId = id
             /\ \/ ShowsResult(id, Last(dbHistory'))
                \/ Triggers(Last(dbHistory').level) /\ dom'[id].desc = msgUnable ]_vars

\* one cycle of s1 has finished and its result is on display while another
\* cycle of s1 is still in flight
C21_Witness ==
  /\ InFlight("s1") # {}
  /\ Len(dbHistory) >= 1
  /\ Last(dbHistory).widgetId = "s1"
  /\ Shows("s1", Last(dbHistory).message)
  /\ Last(dbHistory).level # "unknown"

\* C22 as claimed: in every reachable state all refresh cycles in flight are
\* for one and the same source, whatever started them.
C22_NoTwoSourcesInFlight ==
  \A c, d \in 1..Len(cycles) : cycles[c].id = cycles[d].id

\* C22: two cycles that are in flight at the same time never belong to the
\* same refreshAllWidgets invocation; cycles for different sources overlap
\* only when they were started by different callers (the rendering of the
\* grid, a Refresh button, another refreshAllWidgets invocation).
C22_OneCycleOfEachRefreshAll ==
  \A c, d \in 1..Len(cycles) :
    (c # d /\ cycles[c].owner = cycles[d].owner) => cycles[c].owner = 0

\* a refreshAllWidgets loop is fetching s1 while a cycle started by another
\* caller is fetching s2
C22_Witness ==
  \E c, d \in 1..Len(cycles) :
    /\ cycles[c].id = "s1" /\ cycles[c].owner = 1
    /\ cycles[d].id = "s2" /\ cycles[d].owner = 0

\* an entry appended in memory by a completed cycle is not in the persisted
\* document
LostUpdate ==
  /\ stored.present
  /\ \/ ~IsPrefix(dbHistory, stored.history)
     \/ ~IsPrefix(dbNotifications, stored.notifications)
     \/ Len(stored.history) < FinishedTracked

\* a cycle started by another caller has finished, and written its result,
\* while the cycle of a refreshAllWidgets loop for the same source is in
\* flight
RaceSeen ==
  \E c \in 1..Len(cycles) :
    /\ cycles[c].owner # 0
    /\ dom[cycles[c].id].present
    /\ dom[cycles[c].id].desc \notin {msgChecking, msgLoading}
    /\ \E i \in 1..Len(dbHistory) : dbHistory[i].widgetId = cycles[c].id

\* C23 as claimed: a manual refresh racing a refreshAll loses an update:
\* once a writer has completed alongside the cycle of a refreshAllWidgets
\* loop, an entry appended by a completed cycle is missing from the
\* persisted document.
C23_RaceLosesUpdate == RaceSeen => LostUpdate

\* C23: no interleaving loses an update: once the document has been
\* persisted it holds every history entry and every notification appended
\* so far, one history entry per completed cycle, and the persisted
\* sequences only ever grow at their end.
C23_NoUpdateIsLost ==
  /\ [](~LostUpdate)
  /\ [][ /\ IsPrefix(stored.history, stored'.history)
         /\ IsPrefix(stored.notifications, stored'.notifications)
         /\ Len(stored'.history) - Len(stored.history) = FinishedTracked' - FinishedTracked ]_vars

\* a cycle of another caller has completed and persisted its major entry and
\* notification while the cycle of a refreshAllWidgets loop for the same
\* source is in flight
C23_Witness ==
  /\ \E c \in 1..Len(cycles) : cycles[c].owner = 1 /\ cycles[c].id = "s1"
  /\ stored.present
  /\ Len(stored.history) >= 2
  /\ Last(stored.history).widgetId = "s1"
  /\ Last(stored.history).level = "major"
  /\ Shows("s1", Last(stored.history).message)
  /\ Len(stored.notifications) >= 1

\* C24: no cycle is ever suspended between the statements that follow its
\* fetchStatus: the step that changes a widget to a fetched status also
\* appends that cycle's history entry, evaluates the notification rule
\* (one notification exactly if the level is major) and ends the cycle, so
\* no other cycle's write falls in between.
C24_ContinuationRunsAsOneStep ==
  /\ [](\A c \in 1..Len(cycles) : cycles[c].call.stage \in {"fetching", "settled"})
  /\ [][ (\E id \in Sources : /\ dom'[id] # dom[id]
                              /\ dom'[id].present
                              /\ dom'[id].desc \notin {msgChecking, msgLoading})
         => /\ Len(cycles') = Len(cycles) - 1
            /\ Len(dbHistory') = Len(dbHistory) + 1
            /\ LET e == Last(dbHistory') IN
               /\ dom'[e.widgetId] # dom[e.widgetId]
               /\ \/ ShowsResult(e.widgetId, e)
                  \/ Triggers(e.level) /\ dom'[e.widgetId].desc = msgUnable
               /\ Len(dbNotifications') =
                    Len(dbNotifications) + (IF Triggers(e.level) THEN 1 ELSE 0) ]_vars

\* the continuation of one cycle is queued while another cycle has already
\* written its status, its major entry and its notification
C24_Witness ==
  /\ \E c \in 1..Len(cycles) : cycles[c].call.stage = "settled"
  /\ Len(dbHistory) >= 1
  /\ Last(dbHistory).level = "major"
  /\ Len(dbNotifications) >= 1
  /\ Last(dbNotifications).message = Last(dbHistory).message

\* C25: whichever step of the try block raises, the refreshWidget invocation
\* ends normally and leaves the source showing unknown / "Unable to load";
\* an invocation in which nothing raises ends normally with its history
\* entry written.
C25_NeverPropagates ==
  [][ Len(cycles') < Len(cycles) =>
        /\ ret'.outcome = "resolved"
        /\ IF ret'.raised
             THEN dom'[ret'.id].present =>
                    (dom'[ret'.id].desc = msgUnable /\ dom'[ret'.id].dot = "unknown")
             ELSE /\ Len(dbHistory') = Len(dbHistory) + 1
                  /\ ShowsResult(ret'.id, Last(dbHistory')) ]_vars

\* an invocation ended normally after its history write raised: the source
\* shows "Unable to load" and the history has no entry for it
C25_Witness ==
  /\ ret.raised
  /\ ret.outcome = "resolved"
  /\ Shows(ret.id, msgUnable)
  /\ \A i \in 1..Len(dbHistory) : dbHistory[i].widgetId # ret.id
  /\ Len(dbHistory) >= 1

\* C26: a source with a refresh cycle in flight eventually has none: every
\* cycle that entered checking leaves it, whatever the network does, as long
\* as due timeout callbacks are run.
C26_EveryCycleLeavesChecking ==
  \A id \in Sources : (InFlight(id) # {}) ~> (InFlight(id) = {})

\* the auto-refresh timer is the one the in-memory setting asks for
TimerFollowsSetting ==
  IF GreaterThanZero(refreshInterval)
    THEN activeTimers = {[id |-> autoRefreshTimer, period |-> refreshInterval.n * 1000]}
    ELSE activeTimers = {}

\* C27: once the dashboard runs, the active timer's period equals the
\* in-memory refreshInterval setting (no timer for a setting that is not
\* positive), also after an interval change whose settings write failed.
C27_TimerFollowsSettingAlways == phase = "run" => TimerFollowsSetting

EnabledIds(cfgs) == {cfgs[i].id : i \in {j \in 1..Len(cfgs) : cfgs[j].enabled # "false"}}

\* C28: every refreshAllWidgets invocation polls exactly the sources that
\* are enabled when it is made, so a source toggled to disabled is not
\* fetched by any later one.
C28_RefreshAllPollsEnabled ==
  [][ Len(alls') > Len(alls) =>
        SeqToSet(Last(alls').keys) = EnabledIds(statusConfigs') ]_vars

EntriesOf(id) == {i \in 1..Len(dbHistory) : dbHistory[i].widgetId = id}
LatestOf(id) == dbHistory[CHOOSE i \in EntriesOf(id) : \A j \in EntriesOf(id) : j <= i]
ShowsEntry(id, e) == dom[id].desc = e.message /\ dom[id].dot = mapStatusToColor(e.level)
Quiet(id) == InFlight(id) = {} /\ dom[id].present /\ EntriesOf(id) # {}

\* C29 as claimed: a rendered source with no cycle in flight and at least
\* one history entry shows the level and message of its latest entry.
C29_StatusIsLatestEntry ==
  \A id \in Sources : Quiet(id) => ShowsEntry(id, LatestOf(id))

\* C29: a rendered source with no cycle in flight and at least one history
\* entry shows the level and message of its latest entry, unless that entry
\* is of level major and the alert of its cycle raised: then the source
\* shows unknown / "Unable to load".
C29_StatusIsLatestEntryOrUnable ==
  \A id \in Sources :
    Quiet(id) =>
      \/ ShowsEntry(id, LatestOf(id))
      \/ /\ Triggers(LatestOf(id).level)
         /\ dom[id].desc = msgUnable
         /\ dom[id].dot = "unknown"

\* s1 is at rest after two cycles with different results and shows the
\* second
C29_Witness ==
  /\ Quiet("s1")
  /\ Cardinality({dbHistory[i].level : i \in EntriesOf("s1")}) >= 2
  /\ ShowsEntry("s1", LatestOf("s1"))
  /\ LatestOf("s1").level = "warning"

LatestLevelCount(level) ==
  Cardinality({i \in 1..Len(widgetKeys) : LatestOf(widgetKeys[i]).level = level})

\* C30: the counts computed when refreshAllWidgets is through, with nothing
\* else in flight, are the numbers of tracked sources whose latest level is
\* ok, warning, major and unknown, and add up to the number of tracked
\* sources.
C30_CountsAgreeWithLevels ==
  ret.computed =>
    /\ ret.ok = LatestLevelCount("ok")
    /\ ret.warn = LatestLevelCount("warning")
    /\ ret.down = LatestLevelCount("major")
    /\ ret.unknown = LatestLevelCount("unknown")
    /\ ret.ok + ret.warn + ret.down + ret.unknown = Len(widgetKeys)

====
